---- MODULE Spec2Model ----
(***************************************************************************)
(* MiniPaaS application supervisor (server.js): the registry document      *)
(* apps.json, the in-memory process table, log streams, restart counters,  *)
(* the timers the supervisor arms, and the HTTP handlers that drive them.  *)
(* Every synchronous stretch of a handler (from its entry or from the      *)
(* resumption of an await up to the next await or the response) is one     *)
(* action; an await, a setTimeout callback and a child's close event are   *)
(* the points where other handlers interleave.                             *)
(***************************************************************************)
EXTENDS Integers, Sequences, FiniteSets, TLC

(***************************************************************************)
(* Bounds of the model.                                                    *)
(***************************************************************************)
MaxReq == 3
MaxPid == 4
MaxVer == 3
MaxTicks == 13
MaxBoots == 1
\* Lines the children write to their logs (the line a child's exit adds is
\* not counted).
MaxLines == 6
\* The configured rotation: LOG_MAX_FILES numbered files, and a primary file
\* of LOG_MAX_SIZE_MB or more is rotated. Every log line counts as 1 MB.
LOG_MAX_FILES == 3
LOG_MAX_SIZE_MB == 2
\* The port searches start and find ports occupied within PortSpan ports of
\* PORT_LIMIT.
PortSpan == 3

(***************************************************************************)
(* Program constants.                                                      *)
(***************************************************************************)
START_PORT == 5200
PORT_LIMIT == 65000
AUTO_RESTART_MAX == 3
AUTO_RESTART_WINDOW == 300
AUTO_RESTART_DELAY_MS == 3000
STABLE_RUN_MS == 30000
RESTART_DELAY_MS == 1000
ROLLBACK_DELAY_MS == 500

\* One clock tick of the timed specification, in milliseconds.
TickMs == AUTO_RESTART_DELAY_MS

Names == {"a", "b"}
Secrets == {"abc", "zzz"}
Bodies == {"push1", "push2"}

NoPid == 0
Pids == 1..MaxPid
NoSecret == "null"
NoCount == [count |-> -1, age |-> 0]
NoResp == [op |-> "none", name |-> "", code |-> 0, error |-> ""]

\* Exit codes the close event reports: 0, a non-zero code, or null (the child
\* was ended by a signal).
CodeNull == -1
ExitCodes == {0, 1, CodeNull}

(***************************************************************************)
(* Paths. A path is the sequence of its segments from the filesystem root. *)
(***************************************************************************)
BASE_DIR == <<"srv">>
APPS_DIR == BASE_DIR \o <<"apps">>

\* name.toLowerCase().replace(/[^a-z0-9-]/g, '-') on the request names the
\* model draws; RawNames maps each raw request name to its characters.
RawNames == {"a", "b", "A"}

LowerChar(c) ==
    IF c = "A" THEN "a" ELSE IF c = "B" THEN "b" ELSE c

SafeChar(c) ==
    IF LowerChar(c) \in {"a", "b", "-"} THEN LowerChar(c) ELSE "-"

\* The raw names are one character long: the safe name is that character
\* lower-cased, or "-" when it is outside [a-z0-9-].
safeName(raw) == SafeChar(raw)

AppPath(name) == APPS_DIR \o <<name>>

\* path.join / path.resolve: "." is dropped, ".." removes the last segment
\* (the root is its own parent), anything else is appended.
RECURSIVE NormalizeFrom(_, _)
NormalizeFrom(acc, segs) ==
    IF segs = <<>> THEN acc
    ELSE LET s == Head(segs)
             nxt == IF s = "." THEN acc
                    ELSE IF s = ".."
                         THEN (IF acc = <<>> THEN acc ELSE SubSeq(acc, 1, Len(acc) - 1))
                         ELSE Append(acc, s)
         IN NormalizeFrom(nxt, Tail(segs))

PathResolve(base, rel) == NormalizeFrom(<<>>, base \o rel)

IsPrefix(p, q) == Len(p) <= Len(q) /\ SubSeq(q, 1, Len(p)) = p

\* resolved === appPath || resolved.startsWith(appPath + path.sep)
\* Faulty variant: the test applied to the joined path before it is resolved.
EntryAllowed_NoResolve(appPath, entryName) ==
    IsPrefix(appPath, appPath \o entryName)

EntryAllowed(appPath, entryName) ==
    LET resolved == PathResolve(appPath, entryName)
    IN resolved = appPath \/ (IsPrefix(appPath, resolved) /\ resolved # appPath)

(***************************************************************************)
(* Archives the model uploads: a sequence of entries, each with its stored *)
(* name (segments) and whether it is a directory entry.                    *)
(***************************************************************************)
Entry(segs, isDir) == [entryName |-> segs, isDirectory |-> isDir]

ZipStatic == << Entry(<<"index.html">>, FALSE) >>
ZipNode == << Entry(<<"package.json">>, FALSE), Entry(<<"lib">>, TRUE) >>
ZipSlip == << Entry(<<"ok.txt">>, FALSE),
              Entry(<<"..", "..", "..", "..", "etc", "evil">>, FALSE) >>
ZipSibling == << Entry(<<"sub", "..", "..", "b", "x.txt">>, FALSE) >>
ZipDots == << Entry(<<"sub", "..", "index.html">>, FALSE) >>

Archives == {ZipStatic, ZipNode, ZipSlip, ZipSibling, ZipDots}

(***************************************************************************)
(* State.                                                                  *)
(***************************************************************************)
VARIABLES
    registry,          \* data/apps.json: the sequence of app records
    fsDirs,            \* directories that exist (paths)
    fsFiles,           \* regular files that exist: path -> stored bytes
    runningProcesses,  \* name -> pid of the tracked child, or NoPid
    logStreams,        \* name -> pid whose log stream is registered, or NoPid
    openStreams,       \* pids whose log stream has not been ended
    restartCounts,     \* name -> [count, age of firstRestart], or NoCount
    procs,             \* the child processes that are alive
    nextPid,           \* pid the next spawn gets
    stabTimers,        \* pending 30 s timers armed by startAppProcess
    startTimers,       \* pending delayed startAppProcess calls
    deploys,           \* POST /api/apps handlers suspended at an await
    hooks,             \* webhook handlers suspended at an await
    sweep,             \* the health sweep in progress, or NoSweep
    probes,            \* on-demand health requests awaiting their answer
    nextVer,           \* Date.now() as seen by the next version id
    nreq,              \* HTTP requests served so far
    resp,              \* the response sent by the last step, or NoResp
    timed,             \* TRUE in the specification that tracks time
    now,               \* ticks elapsed (timed specification)
    stableRun,         \* some child has been up for STABLE_RUN_MS (timed)
    autoRestarts,      \* "Auto-restarting" lines logged so far
    emitted,           \* name -> the events io.emit published last
    faulty,            \* TRUE in the specifications where file I/O may fail
    boots,             \* times the platform went down and was started again
    logFiles,          \* name -> the files of logs/<name>.log, the primary at 0
    logClock,          \* number of the next line written to a log
    logged,            \* TRUE in the specification that tracks the log files
    platform           \* "up", "closing" after a shutdown signal, or "exited"

supVars == <<registry, runningProcesses, logStreams, openStreams, restartCounts,
             procs, nextPid, stabTimers, startTimers, autoRestarts, emitted,
             logFiles, logClock>>
fsVars == <<fsDirs, fsFiles>>
asyncVars == <<deploys, hooks, sweep, probes>>
vars == <<supVars, fsVars, asyncVars, nextVer, nreq, resp, timed, now, stableRun,
          faulty, boots, logged, platform>>

NoSweep == [active |-> FALSE, apps |-> <<>>, waiting |-> {}, pendingChecks |-> 0,
            modified |-> FALSE]

\* Delay of a timer in ticks (rounded up); the untimed specifications let a
\* timer fire at any later step.
Ticks(ms) == (ms + TickMs - 1) \div TickMs
Delay(ms) == IF timed THEN Ticks(ms) ELSE 0
StableTicks == Ticks(STABLE_RUN_MS)
WindowTicks == Ticks(AUTO_RESTART_WINDOW * 1000)

(***************************************************************************)
(* Registry helpers (getApps / saveApps are synchronous file accesses, so  *)
(* a handler that reads, changes and saves without an await in between is  *)
(* atomic).                                                                *)
(***************************************************************************)
\* apps.findIndex(a => a.name === name): 0 when absent
FindIndex(apps, name) ==
    IF \E i \in 1..Len(apps) : apps[i].name = name
    THEN CHOOSE i \in 1..Len(apps) :
            /\ apps[i].name = name
            /\ \A j \in 1..(i - 1) : apps[j].name # name
    ELSE 0

HasApp(apps, name) == FindIndex(apps, name) # 0

FindApp(apps, name) == apps[FindIndex(apps, name)]

\* updateAppStatus: read the document, set the status of the first app
\* with that name, save; nothing is saved when the app is absent.
\* Faulty variant: the status is written to every app of the document.
updateAppStatus_Blind(apps, name, status) ==
    [i \in 1..Len(apps) |-> [apps[i] EXCEPT !.status = status]]

updateAppStatus(apps, name, status) ==
    LET idx == FindIndex(apps, name)
    IN IF idx # 0 THEN [apps EXCEPT ![idx].status = status] ELSE apps

RemoveAt(seq, i) == SubSeq(seq, 1, i - 1) \o SubSeq(seq, i + 1, Len(seq))

\* fs.rmSync(path, {recursive: true, force: true})
RmDirs(dirs, path) == {d \in dirs : ~IsPrefix(path, d)}
RmFiles(files, path) ==
    [f \in {g \in DOMAIN files : ~IsPrefix(path, g)} |-> files[f]]

(***************************************************************************)
(* The supervisor's in-memory state as one record, so that the calls a     *)
(* handler makes in sequence compose.                                      *)
(***************************************************************************)
Sup ==
    [registry |-> registry, runningProcesses |-> runningProcesses,
     logStreams |-> logStreams, openStreams |-> openStreams,
     restartCounts |-> restartCounts, procs |-> procs, nextPid |-> nextPid,
     stabTimers |-> stabTimers, startTimers |-> startTimers,
     autoRestarts |-> autoRestarts, emitted |-> emitted,
     logFiles |-> logFiles, logClock |-> logClock]

Commit(S) ==
    /\ registry' = S.registry
    /\ runningProcesses' = S.runningProcesses
    /\ logStreams' = S.logStreams
    /\ openStreams' = S.openStreams
    /\ restartCounts' = S.restartCounts
    /\ procs' = S.procs
    /\ nextPid' = S.nextPid
    /\ stabTimers' = S.stabTimers
    /\ startTimers' = S.startTimers
    /\ autoRestarts' = S.autoRestarts
    /\ emitted' = S.emitted
    /\ logFiles' = S.logFiles
    /\ logClock' = S.logClock

\* What the socket clients of an app saw last: its two latest status:<name>
\* events, and whether crash:<name> has been published after them.
NoEvents == [status |-> <<>>, crash |-> FALSE]

LastTwo(seq) == IF Len(seq) > 2 THEN SubSeq(seq, Len(seq) - 1, Len(seq)) ELSE seq

\* io.emit(`status:${name}`, status)
EmitStatus(S, name, status) ==
    [S EXCEPT !.emitted[name] =
        [status |-> LastTwo(Append(@.status, status)), crash |-> FALSE]]

\* io.emit(`crash:${name}`, ...)
EmitCrash(S, name) == [S EXCEPT !.emitted[name].crash = TRUE]

\* closeLogStream: end and forget the stream registered for the name.
\* The files of one app's log: index 0 is logs/<name>.log, index k is
\* logs/<name>.log.k; a file is the sequence of the numbers of its lines,
\* and <<>> stands for a file that does not exist (a file that exists is
\* empty only while nothing was written to a new primary file, which
\* getLogStream treats as it treats a missing one).
NoLogs == [i \in 0..LOG_MAX_FILES |-> <<>>]

\* fs.renameSync(oldPath, newPath) when oldPath exists
RenameLog(fl, old, new) ==
    IF fl[old] # <<>> THEN [fl EXCEPT ![new] = fl[old], ![old] = <<>>] ELSE fl

\* for (let i = LOG_MAX_FILES - 1; i >= 1; i--): oldPath is the primary file
\* for i = 1 and <name>.log.i otherwise, newPath is <name>.log.(i + 1)
RECURSIVE RotateFrom(_, _)
RotateFrom(fl, i) ==
    IF i < 1 THEN fl
    ELSE RotateFrom(RenameLog(fl, IF i = 1 THEN 0 ELSE i, i + 1), i - 1)

\* Faulty variant: the primary file is copied to its new name and left in
\* place.
rotateLog_CopyPrimary(fl) ==
    [RotateFrom([fl EXCEPT ![LOG_MAX_FILES] = <<>>], LOG_MAX_FILES - 1)
        EXCEPT ![0] = fl[0]]

\* rotateLog(appName): the oldest file is removed, the others move up
rotateLog(fl) ==
    RotateFrom([fl EXCEPT ![LOG_MAX_FILES] = <<>>], LOG_MAX_FILES - 1)

\* getLogStream(appName): the primary file is rotated when it has reached
\* LOG_MAX_SIZE_MB, then a stream that appends to the primary file is
\* opened and registered.
getLogStream(S, appName, stream) ==
    LET fl == S.logFiles[appName]
    IN [S EXCEPT !.logFiles[appName] =
                     IF fl[0] # <<>> /\ Len(fl[0]) >= LOG_MAX_SIZE_MB
                     THEN rotateLog(fl) ELSE fl,
                 !.logStreams[appName] = stream,
                 !.openStreams = @ \cup {stream}]

\* logStream.write(line) on the stream a child was started with: the line
\* is appended to the primary file the stream was opened on; a stream that
\* was ended adds nothing to the file.
LogWrite(S, name, stream) ==
    IF logged /\ stream \in S.openStreams
    THEN [S EXCEPT !.logFiles[name][0] = Append(@, S.logClock),
                   !.logClock = @ + 1]
    ELSE S

\* cleanOldLogs(): the log files of names that are not registered are
\* removed.
cleanOldLogs(files, apps) ==
    [n \in Names |-> IF \E i \in 1..Len(apps) : apps[i].name = n
                     THEN files[n] ELSE NoLogs]

closeLogStream(S, name) ==
    IF S.logStreams[name] # NoPid
    THEN [S EXCEPT !.openStreams = @ \ {S.logStreams[name]},
                   !.logStreams[name] = NoPid]
    ELSE S

\* child.kill(): SIGTERM is sent to the child (when it is still alive);
\* nothing waits for the child to end.
Kill(ps, pid) ==
    {IF p.pid = pid THEN [p EXCEPT !.term = TRUE] ELSE p : p \in ps}

\* stopAppProcess(name, markStopped)
\* Faulty variant: the restart counter is kept.
stopAppProcess_KeepCount(S, name, markStopped) ==
    IF S.runningProcesses[name] # NoPid
    THEN LET S1 == [S EXCEPT !.procs = Kill(@, S.runningProcesses[name]),
                             !.runningProcesses[name] = NoPid]
             S2 == closeLogStream(S1, name)
         IN IF markStopped
            THEN [S2 EXCEPT !.registry = updateAppStatus(@, name, "stopped")]
            ELSE S2
    ELSE S

stopAppProcess(S, name, markStopped) ==
    IF S.runningProcesses[name] # NoPid
    THEN LET S1 == [S EXCEPT !.restartCounts[name] = NoCount,
                             !.procs = Kill(@, S.runningProcesses[name]),
                             !.runningProcesses[name] = NoPid]
             S2 == closeLogStream(S1, name)
         IN IF markStopped
            THEN [S2 EXCEPT !.registry = updateAppStatus(@, name, "stopped")]
            ELSE S2
    ELSE S

\* process.env of the platform process.
PlatformEnv == [k \in {"HOME"} |-> "/root"]

\* { ...a, ...b }: the keys of b override those of a.
Spread(a, b) ==
    [k \in DOMAIN a \cup DOMAIN b |-> IF k \in DOMAIN b THEN b[k] ELSE a[k]]

\* appEnv = { ...process.env, ...env, PORT: String(port) }
appEnv(appData) ==
    Spread(Spread(PlatformEnv, appData.env),
           [k \in {"PORT"} |-> ToString(appData.port)])

\* The environment the child is created with: spawn() is given appEnv,
\* fork(STATIC_RUNNER, [port, appPath], { stdio }) is given no env option
\* and so hands the child process.env.
ChildEnv(appData) ==
    IF appData.type = "static" THEN PlatformEnv ELSE appEnv(appData)

\* startAppProcess(appData): dirs is the filesystem the call sees.
startAppProcess(S, appData, dirs) ==
    LET name == appData.name
        pid == S.nextPid
        S1 == closeLogStream(S, name)
        S2 == getLogStream(S1, name, pid)
    IN IF appData.path \notin dirs
       THEN closeLogStream(
                [S2 EXCEPT !.registry = updateAppStatus(@, name, "stopped")],
                name)
       ELSE EmitStatus(
              [S2 EXCEPT
                !.procs = @ \cup {[pid |-> pid, name |-> name,
                                   port |-> appData.port, term |-> FALSE,
                                   up |-> 0, env |-> ChildEnv(appData)]},
                !.nextPid = pid + 1,
                !.stabTimers = @ \cup {[name |-> name, pid |-> pid,
                                        left |-> Delay(STABLE_RUN_MS)]},
                !.runningProcesses[name] = pid,
                !.registry = updateAppStatus(@, name, "running")],
              name, "running")

\* A start that finds the directory needs a fresh pid.
CanStart(appData, dirs) == appData.path \in dirs => nextPid <= MaxPid

Resp(op, name, code) == [op |-> op, name |-> name, code |-> code, error |-> ""]

\* An error answer with its message.
RespErr(op, name, code, error) ==
    [op |-> op, name |-> name, code |-> code, error |-> error]

(***************************************************************************)
(* Supervisor handlers.                                                    *)
(***************************************************************************)
\* Faulty variant: no check that the app is already running.
StartReq_NoRunningCheck(n) ==
    /\ nreq < MaxReq
    /\ nreq' = nreq + 1
    /\ IF ~HasApp(registry, n)
       THEN /\ resp' = Resp("start", n, 404)
            /\ UNCHANGED supVars
       ELSE /\ CanStart(FindApp(registry, n), fsDirs)
            /\ Commit(startAppProcess(Sup, FindApp(registry, n), fsDirs))
            /\ resp' = Resp("start", n, 200)
    /\ UNCHANGED <<fsVars, asyncVars, nextVer, timed, now, stableRun, faulty, boots, logged, platform>>

\* POST /api/apps/:name/start
StartReq(n) ==
    /\ nreq < MaxReq
    /\ nreq' = nreq + 1
    /\ IF ~HasApp(registry, n)
       THEN /\ resp' = Resp("start", n, 404)
            /\ UNCHANGED supVars
       ELSE IF runningProcesses[n] # NoPid
       THEN /\ resp' = Resp("start", n, 400)
            /\ UNCHANGED supVars
       ELSE /\ CanStart(FindApp(registry, n), fsDirs)
            /\ Commit(startAppProcess(Sup, FindApp(registry, n), fsDirs))
            /\ resp' = Resp("start", n, 200)
    /\ UNCHANGED <<fsVars, asyncVars, nextVer, timed, now, stableRun, faulty, boots, logged, platform>>

\* POST /api/apps/:name/stop
StopReq(n) ==
    /\ nreq < MaxReq
    /\ nreq' = nreq + 1
    /\ IF ~HasApp(registry, n)
       THEN /\ resp' = Resp("stop", n, 404)
            /\ UNCHANGED supVars
       ELSE IF runningProcesses[n] = NoPid
       THEN /\ resp' = Resp("stop", n, 400)
            /\ UNCHANGED supVars
       ELSE /\ Commit(stopAppProcess(Sup, n, TRUE))
            /\ resp' = Resp("stop", n, 200)
    /\ UNCHANGED <<fsVars, asyncVars, nextVer, timed, now, stableRun, faulty, boots, logged, platform>>

\* POST /api/apps/:name/restart: stop now, start (and answer) 1 s later
\* with the record read at the request.
RestartReq(n) ==
    /\ nreq < MaxReq
    /\ nreq' = nreq + 1
    /\ IF ~HasApp(registry, n)
       THEN /\ resp' = Resp("restart", n, 404)
            /\ UNCHANGED supVars
       ELSE /\ LET S1 == stopAppProcess(Sup, n, TRUE)
               IN Commit([S1 EXCEPT !.startTimers = @ \cup
                              {[kind |-> "restart", id |-> nreq + 1,
                                app |-> FindApp(registry, n),
                                left |-> Delay(RESTART_DELAY_MS)]}])
            /\ resp' = NoResp
    /\ UNCHANGED <<fsVars, asyncVars, nextVer, timed, now, stableRun, faulty, boots, logged, platform>>

\* The callback of a delayed start: Restart's (which then answers),
\* rollback's, or the auto-restart's.
StartTimerFire(t) ==
    /\ t \in startTimers
    /\ t.left = 0
    /\ CanStart(t.app, fsDirs)
    /\ Commit(startAppProcess([Sup EXCEPT !.startTimers = @ \ {t}], t.app, fsDirs))
    /\ resp' = IF t.kind = "restart" THEN Resp("restart", t.app.name, 200) ELSE NoResp
    /\ UNCHANGED <<fsVars, asyncVars, nextVer, nreq, timed, now, stableRun, faulty, boots, logged, platform>>

\* now - restartCounts[name].firstRestart > AUTO_RESTART_WINDOW * 1000; without
\* a clock the comparison may go either way.
WindowExpired(rc) ==
    IF timed THEN {rc.age > WindowTicks} ELSE BOOLEAN

\* The auto-restart branch of child.on('close'), run when code is neither 0
\* nor null and the app is still registered.
\* Faulty variant: the count is never compared with AUTO_RESTART_MAX.
autoRestart_NoLimit(S, pid, name, expired) ==
    LET rc0 == IF S.restartCounts[name] = NoCount
               THEN [count |-> 0, age |-> 0] ELSE S.restartCounts[name]
        rc1 == IF expired THEN [count |-> 0, age |-> 0] ELSE rc0
    IN [S EXCEPT !.restartCounts[name] = [rc1 EXCEPT !.count = @ + 1],
                 !.autoRestarts = @ + 1,
                 !.startTimers = @ \cup
                     {[kind |-> "auto", id |-> pid,
                       app |-> FindApp(S.registry, name),
                       left |-> Delay(AUTO_RESTART_DELAY_MS)]}]

autoRestart(S, pid, name, expired) ==
    LET rc0 == IF S.restartCounts[name] = NoCount
               THEN [count |-> 0, age |-> 0] ELSE S.restartCounts[name]
        rc1 == IF expired THEN [count |-> 0, age |-> 0] ELSE rc0
    IN IF rc1.count < AUTO_RESTART_MAX
       THEN [S EXCEPT !.restartCounts[name] = [rc1 EXCEPT !.count = @ + 1],
                      !.autoRestarts = @ + 1,
                      !.startTimers = @ \cup
                          {[kind |-> "auto", id |-> pid,
                            app |-> FindApp(S.registry, name),
                            left |-> Delay(AUTO_RESTART_DELAY_MS)]}]
       ELSE EmitCrash([S EXCEPT !.restartCounts[name] = rc1], name)

\* child.on('close', code): the handler closes over the NAME of the app.
closeHandler(S, p, code, expired) ==
    LET name == p.name
        S0 == LogWrite(S, name, p.pid)
        S1 == closeLogStream([S0 EXCEPT !.procs = @ \ {p}], name)
        S2 == EmitStatus(
                  [S1 EXCEPT !.runningProcesses[name] = NoPid,
                             !.registry = updateAppStatus(@, name, "stopped")],
                  name, "stopped")
    IN IF code # 0 /\ code # CodeNull /\ HasApp(S2.registry, name)
       THEN autoRestart(S2, p.pid, name, expired)
       ELSE S2

\* A child ends (on its own, or on the signal it was sent) and its close
\* event is handled.
ChildExit(p, code) ==
    /\ p \in procs
    /\ \E expired \in WindowExpired(
                         IF restartCounts[p.name] = NoCount
                         THEN [count |-> 0, age |-> 0] ELSE restartCounts[p.name]) :
          Commit(closeHandler(Sup, p, code, expired))
    /\ resp' = NoResp
    /\ UNCHANGED <<fsVars, asyncVars, nextVer, nreq, timed, now, stableRun, faulty, boots, logged, platform>>

\* child.stdout / child.stderr 'data': broadcastLog writes the chunk to the
\* stream the child was started with.
ChildOutput(p) ==
    /\ logged
    /\ p \in procs
    /\ logClock <= MaxLines
    /\ p.pid \in openStreams
    /\ Commit(LogWrite(Sup, p.name, p.pid))
    /\ resp' = NoResp
    /\ UNCHANGED <<fsVars, asyncVars, nextVer, nreq, timed, now, stableRun, faulty, boots, logged, platform>>

\* The 30 s timer of startAppProcess: clears the restart count when the
\* name has a tracked child.
StabTimerFire(t) ==
    /\ t \in stabTimers
    /\ t.left = 0
    /\ stabTimers' = stabTimers \ {t}
    /\ restartCounts' = IF runningProcesses[t.name] # NoPid
                        THEN [restartCounts EXCEPT ![t.name] = NoCount]
                        ELSE restartCounts
    /\ resp' = NoResp
    /\ UNCHANGED <<registry, runningProcesses, logStreams, openStreams, procs,
                   nextPid, startTimers, autoRestarts, emitted, logFiles, logClock, fsVars, asyncVars,
                   nextVer, nreq, timed, now, stableRun, faulty, boots, logged, platform>>

\* Time passes by one tick; a due timer fires before time moves on.
Tick ==
    /\ timed
    /\ now < MaxTicks
    /\ \A t \in stabTimers \cup startTimers : t.left > 0
    /\ now' = now + 1
    /\ stabTimers' = {[t EXCEPT !.left = @ - 1] : t \in stabTimers}
    /\ startTimers' = {[t EXCEPT !.left = @ - 1] : t \in startTimers}
    /\ restartCounts' =
          [n \in Names |->
              IF restartCounts[n] = NoCount THEN NoCount
              ELSE [restartCounts[n] EXCEPT
                       !.age = IF @ > WindowTicks THEN @ ELSE @ + 1]]
    /\ procs' = {[p EXCEPT !.up = IF @ >= StableTicks THEN @ ELSE @ + 1] : p \in procs}
    /\ stableRun' = (stableRun \/ \E p \in procs : p.up + 1 >= StableTicks)
    /\ resp' = NoResp
    /\ UNCHANGED <<registry, runningProcesses, logStreams, openStreams, nextPid,
                   autoRestarts, emitted, logFiles, logClock, fsVars, asyncVars, nextVer, nreq, timed,
                   faulty, boots, logged, platform>>

(***************************************************************************)
(* Deployment: POST /api/apps.                                             *)
(***************************************************************************)
\* fs.mkdirSync(path, {recursive: true})
MkdirP(dirs, path) == dirs \cup {SubSeq(path, 1, k) : k \in 1..Len(path)}

WriteFile(files, path, data) ==
    [f \in DOMAIN files \cup {path} |-> IF f = path THEN data ELSE files[f]]

Dirname(path) == SubSeq(path, 1, Len(path) - 1)

\* throw new Error('El ZIP contiene rutas no permitidas')
ZipRefused == "El ZIP contiene rutas no permitidas"

\* The zip entry loop: each entry is checked, then written; the first entry
\* that is refused (or that cannot be written) stops the loop with the
\* earlier entries on disk.
RECURSIVE ExtractEntries(_, _, _, _)
ExtractEntries(fs, appPath, entries, data) ==
    IF entries = <<>> THEN fs
    ELSE LET e == Head(entries)
             resolved == PathResolve(appPath, e.entryName)
         IN IF ~EntryAllowed(appPath, e.entryName)
            THEN [fs EXCEPT !.ok = FALSE, !.error = ZipRefused]
            ELSE IF e.isDirectory
            THEN ExtractEntries([fs EXCEPT !.dirs = MkdirP(@, resolved)],
                                appPath, Tail(entries), data)
            ELSE IF resolved \in fs.dirs
            THEN [fs EXCEPT !.ok = FALSE, !.error = "EISDIR"]
            ELSE ExtractEntries(
                     [fs EXCEPT !.dirs = MkdirP(@, Dirname(resolved)),
                                !.files = WriteFile(@, resolved, data)],
                     appPath, Tail(entries), data)

\* The catch block: remove the app directory when it exists.
DeployCleanup(fs, appPath) ==
    [fs EXCEPT !.dirs = RmDirs(@, appPath), !.files = RmFiles(@, appPath)]

\* fs.existsSync(path.join(appPath, 'package.json'))
DetectType(files, appPath) ==
    IF (appPath \o <<"package.json">>) \in DOMAIN files THEN "node" ELSE "static"

\* Math.max(...apps.map(a => a.port)), or START_PORT - 1 for no apps
RECURSIVE MaxPort(_)
MaxPort(apps) ==
    IF apps = <<>> THEN START_PORT - 1
    ELSE LET m == MaxPort(Tail(apps))
         IN IF Head(apps).port > m THEN Head(apps).port ELSE m

\* Faulty variant: the ports of the registered apps are ignored.
LastPort_Floor(apps) == START_PORT - 1

LastPort(apps) == MaxPort(apps)

\* findAvailablePort(startAt): the first port from startAt upwards whose
\* bind probe succeeds; -1 stands for the thrown 'No free ports'.
RECURSIVE findAvailablePort(_, _)
findAvailablePort(startAt, occupied) ==
    IF startAt \notin occupied THEN startAt
    ELSE IF startAt + 1 > PORT_LIMIT THEN -1
    ELSE findAvailablePort(startAt + 1, occupied)

\* Ports whose probe the environment may let fail.
ProbeRange == START_PORT..(START_PORT + 1)

\* Outcomes of a file access: it succeeds, or (where I/O may fail) throws.
IoOutcomes == IF faulty THEN BOOLEAN ELSE {TRUE}

\* getApps(): the parsed document; a read or parse error is logged and the
\* caller is given the empty list.
getApps(readOk) == IF readOk THEN registry ELSE <<>>

Fs == [ok |-> TRUE, error |-> "", dirs |-> fsDirs, files |-> fsFiles]

EmptyEnv == [k \in {} |-> ""]

\* git rev-parse --short HEAD of a fresh clone; null for an upload.
FirstCommit == 1
NoCommit == 0

\* Faulty variant: the version ids of every app start again at the first.
NewApp_FirstVersionId(name, port, type, method, ver) ==
    [name |-> name, port |-> port, type |-> type, path |-> AppPath(name),
     status |-> "stopped",
     versions |-> << [versionId |-> 1, deployMethod |-> method,
                      gitUrl |-> (method = "git"),
                      gitCommit |-> IF method = "git" THEN FirstCommit
                                    ELSE NoCommit,
                      path |-> AppPath(name)] >>,
     currentVersion |-> 1, webhookSecret |-> NoSecret, env |-> EmptyEnv,
     health |-> "unknown"]

NewApp(name, port, type, method, ver) ==
    [name |-> name, port |-> port, type |-> type, path |-> AppPath(name),
     status |-> "stopped",
     versions |-> << [versionId |-> ver, deployMethod |-> method,
                      gitUrl |-> (method = "git"),
                      gitCommit |-> IF method = "git" THEN FirstCommit
                                    ELSE NoCommit,
                      path |-> AppPath(name)] >>,
     currentVersion |-> ver, webhookSecret |-> NoSecret, env |-> EmptyEnv,
     health |-> "unknown"]

\* The request up to its first await. A zip upload is extracted, typed and
\* installed in the same stretch and then waits for the port probe; a git
\* deploy first waits for the clone.
DeployReq(raw, source, zip) ==
    /\ nreq < MaxReq
    /\ nreq' = nreq + 1
    /\ LET name == safeName(raw)
           appPath == AppPath(name)
       IN IF appPath \in fsDirs
          THEN /\ resp' = Resp("deploy", name, 400)
               /\ UNCHANGED <<fsVars, deploys>>
          ELSE IF source = "git"
          THEN /\ fsDirs' = MkdirP(fsDirs, appPath)
               /\ deploys' = deploys \cup
                     {[id |-> nreq + 1, name |-> name, method |-> "git",
                       pc |-> "clone", apps |-> <<>>, readErr |-> FALSE,
                       type |-> "static", zip |-> <<>>]}
               /\ resp' = NoResp
               /\ UNCHANGED fsFiles
          ELSE IF source = "none"
          THEN /\ resp' = RespErr("deploy", name, 500, "Faltan datos")
               /\ UNCHANGED <<fsVars, deploys>>
          ELSE LET fs0 == [Fs EXCEPT !.dirs = MkdirP(@, appPath)]
                   fs1 == ExtractEntries(fs0, appPath, zip,
                                         [src |-> "zip", rev |-> nreq + 1])
                   type == DetectType(fs1.files, appPath)
               IN \E installOk \in (IF type = "node" THEN BOOLEAN ELSE {TRUE}),
                     readOk \in IoOutcomes :
                     IF fs1.ok /\ installOk
                     THEN /\ fsDirs' = fs1.dirs
                          /\ fsFiles' = fs1.files
                          /\ deploys' = deploys \cup
                                {[id |-> nreq + 1, name |-> name, method |-> "zip",
                                  pc |-> "probe", apps |-> getApps(readOk),
                                  readErr |-> ~readOk, type |-> type,
                                  zip |-> zip]}
                          /\ resp' = NoResp
                     ELSE /\ fsDirs' = DeployCleanup(fs1, appPath).dirs
                          /\ fsFiles' = DeployCleanup(fs1, appPath).files
                          /\ resp' = RespErr("deploy", name, 500,
                                           IF fs1.ok THEN "npm install"
                                           ELSE fs1.error)
                          /\ UNCHANGED deploys
    /\ UNCHANGED <<supVars, hooks, sweep, probes, nextVer, timed, now, stableRun, faulty, boots, logged, platform>>

\* The clone ends: it failed (catch: cleanup), or the checkout is on disk
\* and the handler goes on to type, install and read the registry.
DeployClone(d) ==
    /\ d \in deploys
    /\ d.pc = "clone"
    /\ LET appPath == AppPath(d.name)
       IN \E ok \in BOOLEAN, kind \in {"package.json", "index.html"},
             readOk \in IoOutcomes :
             IF ok /\ appPath \in fsDirs
             THEN /\ fsFiles' = WriteFile(
                                   WriteFile(fsFiles, appPath \o <<kind>>,
                                             [src |-> "git", rev |-> FirstCommit]),
                                   appPath \o <<"HEAD">>,
                                   [src |-> "git", rev |-> FirstCommit])
                  /\ deploys' = (deploys \ {d}) \cup
                        {[d EXCEPT !.pc = "probe", !.apps = getApps(readOk),
                                   !.readErr = ~readOk,
                                   !.type = IF kind = "package.json"
                                            THEN "node" ELSE "static"]}
                  /\ resp' = NoResp
                  /\ UNCHANGED fsDirs
             ELSE /\ fsDirs' = RmDirs(fsDirs, appPath)
                  /\ fsFiles' = RmFiles(fsFiles, appPath)
                  /\ deploys' = deploys \ {d}
                  /\ resp' = Resp("deploy", d.name, 500)
    /\ UNCHANGED <<supVars, hooks, sweep, probes, nextVer, nreq, timed, now, stableRun, faulty, boots, logged, platform>>

\* The answer to an accepted deploy: the app's port, and the ports
\* findAvailablePort tried before it and could not bind.
RespDeploy(name, port, failed) ==
    [op |-> "deploy", name |-> name, code |-> 200, error |-> "",
     port |-> port, failed |-> failed]

\* findAvailablePort has settled: the record is pushed onto the list read
\* before the await, the list is saved and the app is started. A start that
\* throws (getLogStream's statSync or log rotation) is caught like the
\* failures before it: the directory is removed and 500 is answered.
DeployProbe(d) ==
    /\ d \in deploys
    /\ d.pc = "probe"
    /\ nextVer <= MaxVer
    /\ \E occupied \in SUBSET ProbeRange, startOk \in IoOutcomes :
          LET port == findAvailablePort(LastPort(d.apps) + 1, occupied)
              newApp == NewApp(d.name, port, d.type, d.method, nextVer)
              S1 == [Sup EXCEPT !.registry = Append(d.apps, newApp)]
          IN IF port = -1
             THEN /\ fsDirs' = RmDirs(fsDirs, AppPath(d.name))
                  /\ fsFiles' = RmFiles(fsFiles, AppPath(d.name))
                  /\ resp' = Resp("deploy", d.name, 500)
                  /\ UNCHANGED <<supVars, nextVer>>
             ELSE IF ~startOk
             THEN /\ Commit(closeLogStream(S1, d.name))
                  /\ fsDirs' = RmDirs(fsDirs, AppPath(d.name))
                  /\ fsFiles' = RmFiles(fsFiles, AppPath(d.name))
                  /\ nextVer' = nextVer + 1
                  /\ resp' = RespErr("deploy", d.name, 500, "startAppProcess")
             ELSE /\ CanStart(newApp, fsDirs)
                  /\ Commit(startAppProcess(S1, newApp, fsDirs))
                  /\ nextVer' = nextVer + 1
                  /\ resp' = RespDeploy(d.name, port,
                                        (LastPort(d.apps) + 1)..(port - 1))
                  /\ UNCHANGED fsVars
    /\ deploys' = deploys \ {d}
    /\ UNCHANGED <<hooks, sweep, probes, nreq, timed, now, stableRun, faulty, boots, logged, platform>>

\* DELETE /api/apps/:name
DeleteReq(n) ==
    /\ nreq < MaxReq
    /\ nreq' = nreq + 1
    /\ IF ~HasApp(registry, n)
       THEN /\ resp' = Resp("delete", n, 404)
            /\ UNCHANGED <<supVars, fsVars>>
       ELSE /\ LET apps == registry
                   idx == FindIndex(apps, n)
                   S1 == stopAppProcess(Sup, n, TRUE)
               IN Commit([S1 EXCEPT !.registry = RemoveAt(apps, idx)])
            /\ fsDirs' = RmDirs(fsDirs, FindApp(registry, n).path)
            /\ fsFiles' = RmFiles(fsFiles, FindApp(registry, n).path)
            /\ resp' = Resp("delete", n, 200)
    /\ UNCHANGED <<asyncVars, nextVer, timed, now, stableRun, faulty, boots, logged, platform>>

(***************************************************************************)
(* Versions: rollback.                                                     *)
(***************************************************************************)
HasVersion(app, v) == \E i \in 1..Len(app.versions) : app.versions[i].versionId = v

FindVersion(app, v) ==
    app.versions[CHOOSE i \in 1..Len(app.versions) : app.versions[i].versionId = v]

\* fs.cpSync(src, dst, {recursive: true})
CopyTree(fs, src, dst) ==
    LET moved(p) == dst \o SubSeq(p, Len(src) + 1, Len(p))
        srcFiles == {f \in DOMAIN fs.files : IsPrefix(src, f)}
        srcDirs == {d \in fs.dirs : IsPrefix(src, d)}
    IN [fs EXCEPT
           !.dirs = @ \cup {moved(d) : d \in srcDirs},
           !.files = [f \in DOMAIN fs.files \cup {moved(g) : g \in srcFiles} |->
                         IF \E g \in srcFiles : moved(g) = f
                         THEN fs.files[CHOOSE g \in srcFiles : moved(g) = f]
                         ELSE fs.files[f]]]

\* POST /api/apps/:name/rollback. The list is read at entry; the save at
\* the end writes that list with currentVersion changed.
\* The answer to a rollback request for version v.
RespVer(name, code, v) ==
    [op |-> "rollback", name |-> name, code |-> code, error |-> "",
     versionId |-> v]

\* "Prevent rollback to same version in same path"
AlreadyAtVersion(appData, version, v) ==
    version.path = appData.path /\ v = appData.currentVersion

\* The working directory emptied for the copy: rmSync, then mkdirSync.
Emptied(fs, path) ==
    [DeployCleanup(fs, path) EXCEPT !.dirs = MkdirP(@, path)]

\* A rollback whose copy throws (the version's directory is not there) is
\* answered 500 after the app was stopped and its directory emptied.
RollbackReq(n, v) ==
    /\ nreq < MaxReq
    /\ nreq' = nreq + 1
    /\ IF ~HasApp(registry, n)
       THEN /\ resp' = RespVer(n, 404, v)
            /\ UNCHANGED <<supVars, fsVars>>
       ELSE LET apps == registry
                idx == FindIndex(apps, n)
                appData == apps[idx]
            IN IF ~HasVersion(appData, v)
               THEN /\ resp' = RespVer(n, 404, v)
                    /\ UNCHANGED <<supVars, fsVars>>
               ELSE IF AlreadyAtVersion(appData, FindVersion(appData, v), v)
               THEN /\ resp' = RespVer(n, 400, v)
                    /\ UNCHANGED <<supVars, fsVars>>
               ELSE IF /\ FindVersion(appData, v).path # appData.path
                       /\ FindVersion(appData, v).path \notin fsDirs
               THEN /\ Commit(stopAppProcess(Sup, n, TRUE))
                    /\ fsDirs' = Emptied(Fs, appData.path).dirs
                    /\ fsFiles' = Emptied(Fs, appData.path).files
                    /\ resp' = RespVer(n, 500, v)
               ELSE LET version == FindVersion(appData, v)
                        fs1 == IF version.path # appData.path
                               THEN CopyTree(Emptied(Fs, appData.path),
                                             version.path, appData.path)
                               ELSE Fs
                        apps1 == [apps EXCEPT ![idx].currentVersion = v]
                    IN /\ LET S1 == stopAppProcess(Sup, n, TRUE)
                          IN Commit([S1 EXCEPT
                                  !.registry = apps1,
                                  !.startTimers = @ \cup
                                      {[kind |-> "rollback", id |-> nreq + 1,
                                        app |-> apps1[idx],
                                        left |-> Delay(ROLLBACK_DELAY_MS)]}])
                       /\ fsDirs' = fs1.dirs
                       /\ fsFiles' = fs1.files
                       /\ resp' = RespVer(n, 200, v)
    /\ UNCHANGED <<asyncVars, nextVer, timed, now, stableRun, faulty, boots, logged, platform>>

(***************************************************************************)
(* Webhook redeploy.                                                       *)
(***************************************************************************)
\* crypto.createHmac('sha256', secret).update(body).digest('hex'): an
\* HMAC is a value fixed by the pair (key, message), distinct pairs giving
\* distinct values.
HmacHex(secret, body) == <<"hmac", secret, body>>

\* 'sha256=' + hex
Digest(secret, body) == <<"sha256=">> \o HmacHex(secret, body)

NoSig == <<>>
NoBody == "none"

\* The X-Hub-Signature-256 values a caller sends: none, the digest of a
\* body under a key, or a bare hex digest without the prefix.
Signatures ==
    {NoSig} \cup {Digest(k, b) : k \in Secrets, b \in Bodies}
            \cup {HmacHex(k, b) : k \in Secrets, b \in Bodies}

\* sigBuffer.length === digestBuffer.length && timingSafeEqual(sig, digest)
\* Faulty variant: only the lengths are compared.
SignatureOk_LengthOnly(signature, digest) ==
    Len(signature) = Len(digest)

SignatureOk(signature, digest) ==
    Len(signature) = Len(digest) /\ signature = digest

\* The checks of the webhook handler, in order; 0 when the request passes.
\* Faulty variant: a missing secret is not rejected.
WebhookReject_NoSecretCheck(appData, signature, rawBody) ==
    LET current == IF HasVersion(appData, appData.currentVersion)
                   THEN FindVersion(appData, appData.currentVersion).gitUrl
                   ELSE FALSE
    IN IF ~current THEN 400
       ELSE IF signature = NoSig \/ rawBody = NoBody THEN 401
       ELSE IF ~SignatureOk(signature, Digest(appData.webhookSecret, rawBody)) THEN 401
       ELSE 0

WebhookReject(appData, signature, rawBody) ==
    LET current == IF HasVersion(appData, appData.currentVersion)
                   THEN FindVersion(appData, appData.currentVersion).gitUrl
                   ELSE FALSE
    IN IF ~current THEN 400
       ELSE IF appData.webhookSecret = NoSecret THEN 403
       ELSE IF signature = NoSig \/ rawBody = NoBody THEN 401
       ELSE IF ~SignatureOk(signature, Digest(appData.webhookSecret, rawBody)) THEN 401
       ELSE 0

\* POST /api/apps/:name/webhook up to the await of git.fetch().
WebhookReq(n, signature, rawBody) ==
    /\ nreq < MaxReq
    /\ nreq' = nreq + 1
    /\ IF ~HasApp(registry, n)
       THEN /\ resp' = Resp("webhook", n, 404)
            /\ UNCHANGED <<supVars, hooks>>
       ELSE LET code == WebhookReject(FindApp(registry, n), signature, rawBody)
            IN IF code # 0
               THEN /\ resp' = Resp("webhook", n, code)
                    /\ UNCHANGED <<supVars, hooks>>
               ELSE /\ Commit(stopAppProcess(Sup, n, TRUE))
                    /\ hooks' = hooks \cup
                          {[id |-> nreq + 1, name |-> n, apps |-> registry,
                             signature |-> signature, rawBody |-> rawBody]}
                    /\ resp' = NoResp
    /\ UNCHANGED <<fsVars, deploys, sweep, probes, nextVer, timed, now, stableRun, faulty, boots, logged, platform>>

\* appData.versions.push(versionMeta); appData.currentVersion = versionId
\* Faulty variant: the new version is made current without being recorded.
pushVersion_NoAppend(appData, versionMeta) ==
    [appData EXCEPT !.currentVersion = versionMeta.versionId]

pushVersion(appData, versionMeta) ==
    [appData EXCEPT !.versions = Append(@, versionMeta),
                    !.currentVersion = versionMeta.versionId]

\* fetch, pull, rev-parse and the install have ended: on an error the
\* handler answers 500; otherwise the version is pushed onto the app of
\* the list read at the request, that list is saved and the app started.
WebhookPull(h) ==
    /\ h \in hooks
    /\ hooks' = hooks \ {h}
    /\ LET idx == FindIndex(h.apps, h.name)
           appData == h.apps[idx]
           head == appData.path \o <<"HEAD">>
       IN \E ok \in BOOLEAN :
             IF ok /\ head \in DOMAIN fsFiles
             THEN /\ nextVer <= MaxVer
                  /\ LET versionMeta == [versionId |-> nextVer,
                                         deployMethod |-> "webhook",
                                         gitUrl |-> TRUE,
                                         gitCommit |-> fsFiles[head].rev + 1,
                                         path |-> appData.path]
                         app1 == pushVersion(appData, versionMeta)
                         S1 == [Sup EXCEPT !.registry = [h.apps EXCEPT ![idx] = app1]]
                     IN /\ CanStart(app1, fsDirs)
                        /\ Commit(startAppProcess(S1, app1, fsDirs))
                  /\ fsFiles' = [fsFiles EXCEPT ![head].rev = @ + 1]
                  /\ nextVer' = nextVer + 1
                  /\ resp' = Resp("webhook", h.name, 200)
             ELSE /\ resp' = Resp("webhook", h.name, 500)
                  /\ UNCHANGED <<supVars, fsFiles, nextVer>>
    /\ UNCHANGED <<fsDirs, deploys, sweep, probes, nreq, timed, now, stableRun, faulty, boots, logged, platform>>

\* POST /api/apps/:name/webhook/configure: secret || null
ConfigureReq(n, secret) ==
    /\ nreq < MaxReq
    /\ nreq' = nreq + 1
    /\ IF ~HasApp(registry, n)
       THEN /\ resp' = Resp("configure", n, 404)
            /\ UNCHANGED registry
       ELSE /\ registry' = [registry EXCEPT ![FindIndex(registry, n)].webhookSecret =
                               IF secret = "" THEN NoSecret ELSE secret]
            /\ resp' = Resp("configure", n, 200)
    /\ UNCHANGED <<runningProcesses, logStreams, openStreams, restartCounts, procs,
                   nextPid, stabTimers, startTimers, autoRestarts, emitted, logFiles, logClock, fsVars,
                   asyncVars, nextVer, timed, now, stableRun, faulty, boots, logged, platform>>

\* A 200 answer with its JSON body.
RespBody(op, name, body) ==
    [op |-> op, name |-> name, code |-> 200, error |-> "", body |-> body]

\* getCachedDiskSize with nothing cached yet.
NoDiskMB == 0

\* GET /api/apps: every record of the registry, spread, plus diskMB.
ListAppsBody(apps) ==
    [i \in 1..Len(apps) |->
        [k \in DOMAIN apps[i] \cup {"diskMB"} |->
            IF k = "diskMB" THEN <<NoDiskMB>> ELSE <<apps[i][k]>>]]

ListReq ==
    /\ nreq < MaxReq
    /\ nreq' = nreq + 1
    /\ resp' = RespBody("list", "", ListAppsBody(registry))
    /\ UNCHANGED <<supVars, fsVars, asyncVars, nextVer, timed, now, stableRun, faulty, boots, logged, platform>>

\* GET /api/apps/:name/versions
VersionsReq(n) ==
    /\ nreq < MaxReq
    /\ nreq' = nreq + 1
    /\ resp' = IF ~HasApp(registry, n) THEN Resp("versions", n, 404)
               ELSE RespBody("versions", n, FindApp(registry, n).versions)
    /\ UNCHANGED <<supVars, fsVars, asyncVars, nextVer, timed, now, stableRun, faulty, boots, logged, platform>>

\* POST /api/apps/:name/env
Envs == {EmptyEnv, [k \in {"PORT"} |-> "9999"]}

SetEnvReq(n, envVars) ==
    /\ nreq < MaxReq
    /\ nreq' = nreq + 1
    /\ IF ~HasApp(registry, n)
       THEN /\ resp' = Resp("env", n, 404)
            /\ UNCHANGED registry
       ELSE /\ registry' = [registry EXCEPT ![FindIndex(registry, n)].env = envVars]
            /\ resp' = Resp("env", n, 200)
    /\ UNCHANGED <<runningProcesses, logStreams, openStreams, restartCounts, procs,
                   nextPid, stabTimers, startTimers, autoRestarts, emitted, logFiles, logClock, fsVars,
                   asyncVars, nextVer, timed, now, stableRun, faulty, boots, logged, platform>>

(***************************************************************************)
(* Health: the on-demand probe and the 60 s sweep. Both keep the list read *)
(* when they began and save it when the answers are in.                    *)
(***************************************************************************)
\* rres.statusCode >= 200 && rres.statusCode < 400 ? 'healthy' : 'unhealthy'
StatusCodes == {200, 302, 404, 500}
HealthOf(statusCode) ==
    IF statusCode >= 200 /\ statusCode < 400 THEN "healthy" ELSE "unhealthy"

\* What a probe ends with: an HTTP answer, a connection error, or (sweep
\* only) the 3 s timeout.
ProbeErr == -1
ProbeTimeout == -2

\* GET /api/apps/:name/health up to http.request
HealthReq(n) ==
    /\ nreq < MaxReq
    /\ nreq' = nreq + 1
    /\ IF ~HasApp(registry, n)
       THEN /\ resp' = Resp("health", n, 404)
            /\ UNCHANGED probes
       ELSE /\ probes' = probes \cup {[id |-> nreq + 1, name |-> n, apps |-> registry]}
            /\ resp' = NoResp
    /\ UNCHANGED <<supVars, fsVars, deploys, hooks, sweep, nextVer, timed, now, stableRun, faulty, boots, logged, platform>>

\* The response or 'error' callback of the on-demand probe.
HealthAnswer(pr, outcome) ==
    /\ pr \in probes
    /\ probes' = probes \ {pr}
    /\ LET idx == FindIndex(pr.apps, pr.name)
           status == IF outcome = ProbeErr THEN "unhealthy" ELSE HealthOf(outcome)
       IN registry' = [pr.apps EXCEPT ![idx].health = status]
    /\ resp' = Resp("health", pr.name, 200)
    /\ UNCHANGED <<runningProcesses, logStreams, openStreams, restartCounts, procs,
                   nextPid, stabTimers, startTimers, autoRestarts, emitted, logFiles, logClock, fsVars,
                   deploys, hooks, sweep, nextVer, nreq, timed, now, stableRun, faulty, boots, logged, platform>>

\* The setInterval callback: read the list, start one probe per app.
SweepStart ==
    /\ nreq < MaxReq
    /\ nreq' = nreq + 1
    /\ ~sweep.active
    /\ Len(registry) > 0
    /\ sweep' = [active |-> TRUE, apps |-> registry,
                 waiting |-> 1..Len(registry),
                 pendingChecks |-> Len(registry), modified |-> FALSE]
    /\ resp' = NoResp
    /\ UNCHANGED <<supVars, fsVars, deploys, hooks, probes, nextVer, timed, now, stableRun, faulty, boots, logged, platform>>

\* One probe of the sweep ends. checkComplete() runs once for an answer or
\* an error; on a timeout the handler destroys the request, which also
\* raises 'error', so checkComplete() runs twice. The list is saved by the
\* call that brings pendingChecks to 0.
SweepAnswer(i, outcome) ==
    /\ sweep.active
    /\ i \in sweep.waiting
    /\ LET status == IF outcome \in {ProbeErr, ProbeTimeout}
                     THEN "unhealthy" ELSE HealthOf(outcome)
           apps1 == [sweep.apps EXCEPT ![i].health = status]
           calls == IF outcome = ProbeTimeout THEN 2 ELSE 1
           left == sweep.pendingChecks - calls
           saves == sweep.pendingChecks > 0 /\ left <= 0
           waiting1 == sweep.waiting \ {i}
       IN /\ registry' = IF saves THEN apps1 ELSE registry
          /\ sweep' = IF waiting1 = {} THEN NoSweep
                      ELSE [sweep EXCEPT !.apps = apps1, !.waiting = waiting1,
                                         !.pendingChecks = left, !.modified = TRUE]
    /\ resp' = NoResp
    /\ UNCHANGED <<runningProcesses, logStreams, openStreams, restartCounts, procs,
                   nextPid, stabTimers, startTimers, autoRestarts, emitted, logFiles, logClock, fsVars,
                   deploys, hooks, probes, nextVer, nreq, timed, now, stableRun, faulty, boots, logged, platform>>

(***************************************************************************)
(* Start-up. init() starts every app of the persisted document; the        *)
(* documents the model boots from are the empty one of a fresh install and *)
(* one left by an earlier run.                                             *)
(***************************************************************************)
BlankSup ==
    [registry |-> <<>>, runningProcesses |-> [n \in Names |-> NoPid],
     logStreams |-> [n \in Names |-> NoPid], openStreams |-> {},
     restartCounts |-> [n \in Names |-> NoCount], procs |-> {}, nextPid |-> 1,
     stabTimers |-> {}, startTimers |-> {}, autoRestarts |-> 0,
     emitted |-> [n \in Names |-> NoEvents],
     logFiles |-> [n \in Names |-> NoLogs], logClock |-> 1]

GitDoc ==
    << [NewApp("a", START_PORT, "node", "git", 1) EXCEPT !.webhookSecret = "abc"] >>

GitDirs == MkdirP({}, AppPath("a"))

GitFiles ==
    WriteFile(WriteFile(<<>>, AppPath("a") \o <<"package.json">>,
                        [src |-> "git", rev |-> 1]),
              AppPath("a") \o <<"HEAD">>, [src |-> "git", rev |-> 1])

\* The registry of an installation that was moved: the paths recorded at
\* the old place, the directories at the new one.
OldPath(name) == <<"old", "apps", name>>

MovedDoc ==
    << [GitDoc[1] EXCEPT !.path = OldPath("a"),
                         !.versions[1].path = OldPath("a")] >>

\* sanitizeAppPaths: a path that does not exist is replaced by
\* <apps>/<name> when that directory exists.
sanitizeAppPaths(apps, dirs) ==
    [i \in 1..Len(apps) |->
        IF apps[i].path \notin dirs /\ AppPath(apps[i].name) \in dirs
        THEN [apps[i] EXCEPT !.path = AppPath(apps[i].name)]
        ELSE apps[i]]

RECURSIVE BootApps(_, _, _)
BootApps(S, apps, dirs) ==
    IF apps = <<>> THEN S
    ELSE BootApps(startAppProcess(S, Head(apps), dirs), Tail(apps), dirs)

InitWith(doc, dirs, files, isTimed, isFaulty) ==
    /\ timed = isTimed
    /\ faulty = isFaulty
    /\ boots = 0
    /\ platform = "up"
    /\ now = 0
    /\ stableRun = FALSE
    /\ fsDirs = dirs
    /\ fsFiles = files
    /\ LET apps == sanitizeAppPaths(doc, dirs)
           S == BootApps([BlankSup EXCEPT !.registry = apps,
                                          !.logFiles = cleanOldLogs(@, apps)],
                         apps, dirs)
       IN /\ registry = S.registry
          /\ runningProcesses = S.runningProcesses
          /\ logStreams = S.logStreams
          /\ openStreams = S.openStreams
          /\ restartCounts = S.restartCounts
          /\ procs = S.procs
          /\ nextPid = S.nextPid
          /\ stabTimers = S.stabTimers
          /\ startTimers = S.startTimers
          /\ autoRestarts = S.autoRestarts
          /\ emitted = S.emitted
          /\ logFiles = S.logFiles
          /\ logClock = S.logClock
    /\ deploys = {}
    /\ hooks = {}
    /\ sweep = NoSweep
    /\ probes = {}
    /\ nextVer = Len(doc) + 1
    /\ nreq = 0
    /\ resp = NoResp

InitFrom(doc, dirs, files, isTimed) ==
    InitWith(doc, dirs, files, isTimed, FALSE) /\ logged = FALSE

InitFresh == InitFrom(<<>>, MkdirP({}, APPS_DIR), <<>>, FALSE)
InitGit == InitFrom(GitDoc, GitDirs, GitFiles, FALSE)
InitTimed == InitFrom(GitDoc, GitDirs, GitFiles, TRUE)

\* The signature GitHub computes for a body under the secret of GitDoc.
InitMoved == InitFrom(MovedDoc, GitDirs, GitFiles, FALSE)
InitFaulty == InitWith(GitDoc, GitDirs, GitFiles, FALSE, TRUE) /\ logged = FALSE
InitLogged == InitWith(GitDoc, GitDirs, GitFiles, FALSE, FALSE) /\ logged = TRUE

(***************************************************************************)
(* The registry file. saveApps writes JSON.stringify(apps) over the file   *)
(* in place; getApps parses what the file holds, and answers [] when the   *)
(* file is empty or cannot be parsed.                                      *)
(***************************************************************************)
\* JSON.stringify(apps, null, 2) as the pieces written in order.
Serialize(apps) ==
    <<[tok |-> "open", app |-> <<>>]>>
        \o [i \in 1..Len(apps) |-> [tok |-> "app", app |-> <<apps[i]>>]]
        \o <<[tok |-> "close", app |-> <<>>]>>

\* JSON.parse(text || '[]')
Parse(text) ==
    IF text = <<>> THEN [ok |-> TRUE, apps |-> <<>>]
    ELSE IF /\ Len(text) >= 2
            /\ text[1].tok = "open"
            /\ text[Len(text)].tok = "close"
            /\ \A i \in 2..(Len(text) - 1) : text[i].tok = "app"
    THEN [ok |-> TRUE, apps |-> [i \in 1..(Len(text) - 2) |-> text[i + 1].app[1]]]
    ELSE [ok |-> FALSE, apps |-> <<>>]

\* getApps on a file holding text: the catch returns [].
getAppsFrom(text) == IF Parse(text).ok THEN Parse(text).apps ELSE <<>>

\* fs.writeFileSync cut short after k pieces: the file was truncated when it
\* was opened and holds what had been written.
Torn(text, k) == SubSeq(text, 1, k)

\* POST /api/apps/:name/stop on a running app, with the platform going down
\* (and its children with it) while updateAppStatus is in saveApps; the
\* platform is then started again and init() runs on what getApps reads.
StopCrash(n) ==
    /\ faulty
    /\ boots < MaxBoots
    /\ nreq < MaxReq
    /\ nreq' = nreq + 1
    /\ HasApp(registry, n)
    /\ runningProcesses[n] # NoPid
    /\ LET text == Serialize(updateAppStatus(registry, n, "stopped"))
       IN \E k \in 0..Len(text) :
             LET apps == sanitizeAppPaths(getAppsFrom(Torn(text, k)), fsDirs)
                 S0 == [BlankSup EXCEPT !.registry = apps, !.nextPid = nextPid,
                                        !.autoRestarts = autoRestarts,
                                        !.logFiles = cleanOldLogs(logFiles, apps),
                                        !.logClock = logClock]
             IN /\ nextPid + Len(apps) - 1 <= MaxPid
                /\ Commit(BootApps(S0, apps, fsDirs))
    /\ boots' = boots + 1
    /\ deploys' = {}
    /\ hooks' = {}
    /\ sweep' = NoSweep
    /\ probes' = {}
    /\ resp' = NoResp
    /\ UNCHANGED <<fsVars, nextVer, timed, now, stableRun, faulty, logged, platform>>

GoodSig(body) == Digest("abc", body)

Timers ==
    \/ \E t \in startTimers : StartTimerFire(t)
    \/ \E t \in stabTimers : StabTimerFire(t)

Exits == \E p \in procs, code \in ExitCodes : ChildExit(p, code)

(***************************************************************************)
(* Spec: the life cycle of one deployed app under Start, Stop, Restart,    *)
(* child exits and the timers.                                             *)
(***************************************************************************)
Init == InitGit

Next ==
    \/ StartReq("a")
    \/ StopReq("a")
    \/ RestartReq("a")
    \/ Timers
    \/ Exits

Spec == Init /\ [][Next]_vars

\* The steps the platform takes on its own: its timers fire. A child's exit
\* is the child's doing and is not forced.
PlatformSteps == Timers

SpecLive == Spec /\ WF_vars(PlatformSteps)

(***************************************************************************)
(* SpecVersions: redeploys and rollbacks of app a, among a deploy of b,    *)
(* the delete of a, health sweeps, delayed starts and clean child exits.    *)
(***************************************************************************)
NextVersions ==
    \/ \E v \in 1..MaxVer : RollbackReq("a", v)
    \/ \E body \in {"push1"} : WebhookReq("a", GoodSig(body), body)
    \/ \E h \in hooks : WebhookPull(h)
    \/ DeployReq("b", "zip", ZipStatic)
    \/ \E d \in deploys : DeployProbe(d)
    \/ DeleteReq("a")
    \/ SweepStart
    \/ \E i \in 1..Len(registry) + 1, outcome \in {200, ProbeTimeout} :
          SweepAnswer(i, outcome)
    \/ \E t \in startTimers : StartTimerFire(t)
    \/ \E p \in procs : ChildExit(p, 0)

SpecVersions == InitGit /\ [][NextVersions]_vars

(***************************************************************************)
(* SpecHook: webhook requests with every signature against every secret.   *)
(***************************************************************************)
NextHook ==
    \/ \E secret \in Secrets \cup {""} : ConfigureReq("a", secret)
    \/ \E sig \in Signatures, body \in Bodies \cup {NoBody} : WebhookReq("a", sig, body)
    \/ \E h \in hooks : WebhookPull(h)
    \/ StopReq("a")
    \/ Exits

SpecHook == InitGit /\ [][NextHook]_vars

(***************************************************************************)
(* SpecRegistry: the handlers that read and save the registry document,    *)
(* interleaved at their awaits.                                            *)
(***************************************************************************)
NextRegistry ==
    \/ \E raw \in {"a", "b"} : DeployReq(raw, "zip", ZipStatic)
    \/ \E d \in deploys : DeployProbe(d)
    \/ \E n \in Names : DeleteReq(n)
    \/ \E n \in Names : HealthReq(n)
    \/ \E pr \in probes, outcome \in {200, ProbeErr} : HealthAnswer(pr, outcome)
    \/ SweepStart
    \/ \E i \in 1..Len(registry) + 1, outcome \in {200, ProbeTimeout} :
          SweepAnswer(i, outcome)
    \/ Exits

SpecRegistry == (InitFresh \/ InitGit) /\ [][NextRegistry]_vars

(***************************************************************************)
(* SpecZip: archive deploys of every archive of the model.                 *)
(***************************************************************************)
NextZip ==
    \/ \E raw \in RawNames, source \in {"zip", "none"} :
          \E zip \in (IF source = "zip" THEN Archives ELSE {<<>>}) :
             DeployReq(raw, source, zip)
    \/ \E d \in deploys : DeployProbe(d)
    \/ \E n \in Names : DeleteReq(n)
    \/ Exits

SpecZip == InitFresh /\ [][NextZip]_vars

(***************************************************************************)
(* SpecTimed: the crash-restart policy with the clock.                     *)
(***************************************************************************)
NextTimed ==
    \/ StartReq("a")
    \/ StopReq("a")
    \/ Timers
    \/ Exits
    \/ Tick

SpecTimed == InitTimed /\ [][NextTimed]_vars

(***************************************************************************)
(* Properties.                                                             *)
(***************************************************************************)
\* The children of app n that the operating system still runs.
LiveChildren(n) == {p \in procs : p.name = n}

StatusOf(n) == FindApp(registry, n).status

\* C1: at every moment each registered app has at most one live child
\* process, and a live child exists exactly when the app's recorded status
\* is 'running'.
C1_OneChildMatchesStatus ==
    \A n \in Names :
        HasApp(registry, n) =>
            /\ Cardinality(LiveChildren(n)) <= 1
            /\ (LiveChildren(n) # {}) <=> (StatusOf(n) = "running")

\* C6: once Stop has answered success for an app, its child is no longer
\* alive, its map entry is removed, its log stream is closed, its restart
\* counter is cleared and its status is 'stopped'.
C6_StopAnswerMeansStopped ==
    \A n \in Names :
        resp = Resp("stop", n, 200) =>
            /\ LiveChildren(n) = {}
            /\ runningProcesses[n] = NoPid
            /\ logStreams[n] = NoPid
            /\ restartCounts[n] = NoCount
            /\ StatusOf(n) = "stopped"

\* The multi-step operations on app n that have begun and not yet ended: a
\* Restart or a rollback between its stop and its delayed start, a webhook
\* redeploy between its stop and the end of its pull.
InFlight(n) ==
    Cardinality({t \in startTimers : t.kind \in {"restart", "rollback"}
                                     /\ t.app.name = n})
    + Cardinality({h \in hooks : h.name = n})

\* C8: the operations on one app are serialised: no two multi-step
\* operations on the app are in progress together, and no Start or Stop of
\* the app is served between the steps of one.
C8_OperationsSerialised ==
    \A n \in Names :
        /\ InFlight(n) <= 1
        /\ (resp.name = n /\ resp.op \in {"start", "stop"} /\ resp.code = 200)
              => InFlight(n) = 0

\* C4: for an app whose child keeps exiting with a non-zero code, with no
\* request served and no child that stayed up for the stable-run time, the
\* platform performs at most AUTO_RESTART_MAX automatic restarts within the
\* AUTO_RESTART_WINDOW.
C4_RestartCeiling ==
    (nreq = 0 /\ ~stableRun /\ now <= WindowTicks)
        => autoRestarts <= AUTO_RESTART_MAX

\* C5: when a child that an explicit Stop has signalled exits, whatever its
\* exit code, no automatic restart is scheduled for its app.
C5_NoAutoRestartAfterStop ==
    [][\A p \in procs :
          (p.term /\ ~\E q \in procs' : q.pid = p.pid)
             => \A t \in startTimers' :
                   (t.kind = "auto" /\ t.app.name = p.name)
                      => \E u \in startTimers : u.kind = "auto" /\ u.id = t.id]_vars

\* C7: a child that has been sent the termination signal is gone within
\* bounded time, the platform forcing it when the child does not exit. Runs
\* that have served MaxReq requests are left out, so that a run refuting the
\* property is one in which further requests could still be served.
C7_SignalledChildEnds ==
    \A pid \in Pids :
        (\E p \in procs : p.pid = pid /\ p.term)
            ~> ((~\E p \in procs : p.pid = pid) \/ nreq = MaxReq)

\* C2: after any interleaving of deploy and delete requests, overlapping
\* port allocations included, no two apps of the registry have the same
\* assigned port.
C2_PortsUnique ==
    \A i, j \in 1..Len(registry) :
        i # j => registry[i].port # registry[j].port

\* C2's case: two deploys whose port allocations overlapped have both been
\* answered: their children run on one port, neither of them signalled.
C2_OverlappingDeploysDone ==
    /\ resp.op = "deploy"
    /\ resp.code = 200
    /\ deploys = {}
    /\ \E p, q \in procs :
          /\ p.name # q.name
          /\ p.port = q.port
          /\ ~p.term
          /\ ~q.term

\* Two documents that differ at most in the health fields of their apps.
SameButHealth(x, y) ==
    /\ Len(x) = Len(y)
    /\ \A i \in 1..Len(x) :
          [x[i] EXCEPT !.health = "unknown"] = [y[i] EXCEPT !.health = "unknown"]

\* C3: every save is applied to the latest persisted document: when a
\* deploy, an on-demand health probe or a health sweep saves, the document
\* it read earlier is still the persisted one (but for the health fields the
\* sweep itself has set), so that no mutation completed in between is
\* overwritten.
C3_SavesApplyToLatest ==
    [][/\ \A d \in deploys :
             (d.pc = "probe" /\ d \notin deploys' /\ resp'.code = 200)
                => d.apps = registry
       /\ \A pr \in probes :
             pr \notin probes' => pr.apps = registry
       /\ (sweep.active /\ sweep' # sweep /\ registry' # registry)
             => SameButHealth(sweep.apps, registry)]_vars

\* The secret stored for app n.
SecretOf(n) == FindApp(registry, n).webhookSecret

\* C9: a webhook request starts a redeploy only if the app has a secret and
\* the signature header is "sha256=" followed by the hex HMAC-SHA256 of the
\* raw body under that secret; a request answered 401 or 403 has left the
\* registry (versions, currentVersion, status), the children and the files
\* as they were.
C9_WebhookGate ==
    [][/\ \A h \in hooks' \ hooks :
             /\ SecretOf(h.name) # NoSecret
             /\ h.rawBody # NoBody
             /\ h.signature = <<"sha256=">> \o HmacHex(SecretOf(h.name), h.rawBody)
       /\ (resp'.op = "webhook" /\ resp'.code \in {401, 403})
             => UNCHANGED <<supVars, fsVars, asyncVars, nextVer>>]_vars

\* C9's case: a request with a mismatching signature has just been answered
\* 401 while the app has a secret and its child runs.
C9_RejectedWhileRunning ==
    /\ resp = Resp("webhook", "a", 401)
    /\ SecretOf("a") # NoSecret
    /\ StatusOf("a") = "running"
    /\ LiveChildren("a") # {}

\* The paths a step creates or overwrites.
Written ==
    (fsDirs' \ fsDirs)
    \cup {f \in DOMAIN fsFiles' : f \notin DOMAIN fsFiles \/ fsFiles'[f] # fsFiles[f]}

\* C10: an archive deploy writes only at or below apps/<name>; a deploy goes
\* on past the extraction only if every entry of its archive resolves to the
\* app directory or below it; a deploy that is answered an error has added
\* nothing to the registry and has left nothing at or below apps/<name>.
C10_ArchiveStaysInAppDir ==
    [][/\ \A n \in Names \cup {"-"} :
             (nreq' # nreq /\ (resp'.op = "deploy" => resp'.name = n)
                /\ \A d \in deploys' \ deploys : d.name = n)
                => \A path \in Written : IsPrefix(AppPath(n), path)
       /\ \A d \in deploys' \ deploys :
             \A k \in 1..Len(d.zip) :
                IsPrefix(AppPath(d.name), PathResolve(AppPath(d.name), d.zip[k].entryName))
       /\ (resp'.op = "deploy" /\ resp'.code = 500)
             => /\ registry' = registry
                /\ deploys' \subseteq deploys
                /\ \A path \in fsDirs' \cup DOMAIN fsFiles' :
                      ~IsPrefix(AppPath(resp'.name), path)]_vars

\* C10's case: an archive with an escaping entry has just been refused and
\* the app directory is gone.
C10_ArchiveRefused ==
    /\ resp = RespErr("deploy", "a", 500, ZipRefused)
    /\ AppPath("a") \notin fsDirs

\* Deploys, child exits and a platform crash where file accesses may fail.
NextFaulty ==
    \/ \E source \in {"zip", "git"} : DeployReq("b", source, ZipStatic)
    \/ \E d \in deploys : DeployClone(d)
    \/ \E d \in deploys : DeployProbe(d)
    \/ StopCrash("a")
    \/ Exits

SpecFaulty == InitFaulty /\ [][NextFaulty]_vars

\* C11: a deploy that fails after its directory was created leaves no
\* registry entry for the name and no apps/<name> directory.
C11_FailedDeployLeavesNothing ==
    [][\A n \in Names :
          (resp'.op = "deploy" /\ resp'.name = n /\ resp'.code = 500)
             => /\ ~HasApp(registry', n)
                /\ AppPath(n) \notin fsDirs']_vars

SameButStatus(x, y) ==
    /\ Len(x) = Len(y)
    /\ \A i \in 1..Len(x) :
          [x[i] EXCEPT !.status = "stopped"] = [y[i] EXCEPT !.status = "stopped"]

\* C17: a registry write cut short by a crash of the platform leaves the
\* complete previous or the complete new document: what the restarted
\* platform reads is the registry of before the crash, but for the status
\* being written and the statuses set by the starts at boot.
C17_WriteSurvivesCrash ==
    [][boots' # boots => SameButStatus(registry', registry)]_vars

\* C18: a deploy whose read of the registry failed is answered the error
\* and saves nothing: every app registered before its step is registered
\* after it.
C18_ReadErrorSurfaced ==
    [][\A d \in deploys :
          (d.pc = "probe" /\ d.readErr /\ d \notin deploys' /\ boots' = boots)
             => /\ resp'.code = 500
                /\ \A n \in Names : HasApp(registry, n) => HasApp(registry', n)]_vars

\* The read paths, with the secret reconfigured and the app stopped and
\* started in between.
NextRead ==
    \/ \E secret \in Secrets \cup {""} : ConfigureReq("a", secret)
    \/ ListReq
    \/ \E n \in Names : VersionsReq(n)
    \/ StartReq("a")
    \/ StopReq("a")
    \/ Exits

SpecRead == InitGit /\ [][NextRead]_vars

\* The registry with the webhook secret of app n replaced by secret.
WithSecret(apps, n, secret) ==
    [apps EXCEPT ![FindIndex(apps, n)].webhookSecret = secret]

\* C16: no read path returns a webhook secret: the answer to list apps and
\* to list versions is the one the same request gets from a registry that
\* differs only in the value of a webhook secret.
C16_SecretNotReturned ==
    \A n \in Names, secret \in Secrets \cup {NoSecret} :
       HasApp(registry, n) =>
          /\ resp.op = "list"
                => resp.body = ListAppsBody(WithSecret(registry, n, secret))
          /\ (resp.op = "versions" /\ resp.code = 200)
                => resp.body = FindApp(WithSecret(registry, n, secret), resp.name).versions

\* Rollbacks on an installation that was moved.
NextMoved ==
    \/ \E v \in 1..MaxVer : RollbackReq("a", v)
    \/ StartReq("a")
    \/ StopReq("a")
    \/ Timers
    \/ Exits

SpecMoved == InitMoved /\ [][NextMoved]_vars

\* C12: the currentVersion of every registered app is the id of a version
\* in its versions list.
C12_CurrentVersionRecorded ==
    \A i \in 1..Len(registry) : HasVersion(registry[i], registry[i].currentVersion)

\* A rollback to the first version was answered 200 after a webhook
\* redeploy had recorded a second one.
C12_RolledBackAfterRedeploy ==
    /\ resp = RespVer("a", 200, 1)
    /\ HasApp(registry, "a")
    /\ Len(FindApp(registry, "a").versions) >= 2
    /\ FindApp(registry, "a").currentVersion = 1

\* C13: after a rollback to version V answered 200, V is the current
\* version, the working directory holds what V was created from (its
\* commit), and the app is due to start on its port.
C13_RollbackRestoresVersion ==
    [][\A n \in Names :
          (resp'.op = "rollback" /\ resp'.name = n /\ resp'.code = 200)
             => LET app == FindApp(registry', n)
                    V == resp'.versionId
                    head == app.path \o <<"HEAD">>
                IN /\ app.currentVersion = V
                   /\ head \in DOMAIN fsFiles'
                   /\ fsFiles'[head].rev = FindVersion(app, V).gitCommit
                   /\ \E t \in startTimers' :
                         /\ t.kind = "rollback"
                         /\ t.app.name = n
                         /\ t.app.port = FindApp(registry, n).port]_vars

\* C14: a rollback request for the version that is current is answered 400
\* and changes nothing: not the children, the registry, nor the files.
C14_RollbackToCurrentRejected ==
    [][\A n \in Names :
          (/\ resp'.op = "rollback"
           /\ resp'.name = n
           /\ nreq' = nreq + 1
           /\ HasApp(registry, n)
           /\ FindApp(registry, n).currentVersion = resp'.versionId)
             => /\ resp'.code = 400
                /\ UNCHANGED <<supVars, fsVars>>]_vars

\* The files under a version's path.
Snapshot(files, path) ==
    [f \in {g \in DOMAIN files : IsPrefix(path, g)} |-> files[f]]

\* C15: while an app stays registered, no step removes or changes a
\* recorded version or changes the files of its snapshot: the old list of
\* versions is a prefix of the new one.
C15_VersionsAppendOnly ==
    [][\A n \in Names :
          (HasApp(registry, n) /\ HasApp(registry', n))
             => LET old == FindApp(registry, n).versions
                IN /\ IsPrefix(old, FindApp(registry', n).versions)
                   /\ \A i \in 1..Len(old) :
                         Snapshot(fsFiles', old[i].path)
                            = Snapshot(fsFiles, old[i].path)]_vars

(***************************************************************************)
(* Status events.                                                          *)
(***************************************************************************)
LastStatusEvent(n) ==
    IF emitted[n].status = <<>> THEN "none"
    ELSE emitted[n].status[Len(emitted[n].status)]

\* C19: the status events of an app never show "running" twice in a row,
\* and the Restart of an app last seen running is observed as "stopping"
\* followed by "running".
C19_StatusEventOrder ==
    [][\A n \in Names :
          /\ emitted'[n].status # <<"running", "running">>
          /\ (resp' = Resp("restart", n, 200) /\ LastStatusEvent(n) = "running")
                => emitted'[n].status = <<"stopping", "running">>]_vars

\* C20: when a crash finds the restart ceiling reached, a "crashed" status
\* event is published and the registry shows the app as crashed; after that
\* only a manual Start starts the app again.
C20_CeilingPublishesCrashed ==
    [][\A n \in Names :
          /\ (emitted'[n].crash /\ ~emitted[n].crash)
                => /\ emitted'[n].status # <<>>
                   /\ emitted'[n].status[Len(emitted'[n].status)] = "crashed"
                   /\ HasApp(registry', n)
                   /\ FindApp(registry', n).status = "crashed"
          /\ (emitted[n].crash /\ \E p \in procs' \ procs : p.name = n)
                => resp' = Resp("start", n, 200)]_vars

(***************************************************************************)
(* Failed redeploys.                                                       *)
(***************************************************************************)
\* C21: a webhook redeploy that fails after the stop leaves versions and
\* currentVersion as they were, a persisted status that matches the tracked
\* process, and an app that was running at the request running again.
C21_FailedRedeployRolledBack ==
    [][\A h \in hooks :
          (h \notin hooks' /\ resp' = Resp("webhook", h.name, 500)
             /\ HasApp(registry', h.name))
             => LET before == FindApp(h.apps, h.name)
                    after == FindApp(registry', h.name)
                IN /\ after.versions = before.versions
                   /\ after.currentVersion = before.currentVersion
                   /\ (after.status = "running")
                         <=> (runningProcesses'[h.name] # NoPid)
                   /\ before.status = "running"
                         => runningProcesses'[h.name] # NoPid]_vars

(***************************************************************************)
(* SpecHealth: on-demand health probes and the sweep of an app that is     *)
(* stopped and started in between.                                         *)
(***************************************************************************)
NextHealth ==
    \/ HealthReq("a")
    \/ \E pr \in probes, outcome \in StatusCodes \cup {ProbeErr} :
          HealthAnswer(pr, outcome)
    \/ SweepStart
    \/ \E i \in 1..Len(registry), outcome \in StatusCodes \cup {ProbeErr} :
          SweepAnswer(i, outcome)
    \/ \E i \in 1..Len(registry) : SweepAnswer(i, ProbeTimeout)
    \/ StartReq("a")
    \/ StopReq("a")
    \/ Exits

SpecHealth == InitGit /\ [][NextHealth]_vars

\* C22: a health check of an app whose process is known to be stopped (the
\* persisted status read by the check is "stopped" and no child is tracked)
\* records "stopped", by the on-demand probe and by the sweep alike; any
\* other check records "healthy" for a 2xx/3xx answer and else "unhealthy".
C22_HealthMapping ==
    [][/\ \A pr \in probes :
            (pr \notin probes' /\ resp' = Resp("health", pr.name, 200))
               => LET known == FindApp(pr.apps, pr.name).status = "stopped"
                                  /\ runningProcesses[pr.name] = NoPid
                      health == FindApp(registry', pr.name).health
                  IN IF known THEN health = "stopped"
                     ELSE health \in {"healthy", "unhealthy"}
       /\ \A i \in 1..Len(sweep.apps) :
            (sweep.active /\ sweep.waiting = {i} /\ sweep' = NoSweep
               /\ registry' # registry)
               => LET known == sweep.apps[i].status = "stopped"
                                  /\ runningProcesses[sweep.apps[i].name] = NoPid
                  IN IF known THEN registry'[i].health = "stopped"
                     ELSE registry'[i].health \in {"healthy", "unhealthy"}]_vars

\* The steps the platform takes on its own during health checks: the 3 s
\* timeout of a probe of the sweep. The on-demand probe has no such step.
HealthTimeouts == \E i \in 1..Len(registry) : SweepAnswer(i, ProbeTimeout)

SpecHealthLive == SpecHealth /\ WF_vars(HealthTimeouts)

\* C23: every health probe ends: an on-demand health request in flight is
\* eventually answered, and a sweep in progress eventually completes, also
\* when the app never answers. (A request is let off when the app has no
\* child left to hold the connection, or when no further request is served.)
C23_ProbesEnd ==
    /\ \A id \in 1..MaxReq :
          (\E pr \in probes : pr.id = id)
             ~> \/ ~\E pr \in probes : pr.id = id
                \/ \E pr \in probes : pr.id = id /\ LiveChildren(pr.name) = {}
                \/ nreq = MaxReq
    /\ sweep.active ~> ~sweep.active

\* The sweep's half of C23 on its own.
SweepEnds == sweep.active ~> ~sweep.active

(***************************************************************************)
(* Port assignment.                                                        *)
(***************************************************************************)
\* C26: an accepted deploy assigns the lowest port from START_PORT upwards
\* that binds and belongs to no registered app: every lower port is held by
\* a registered app or failed its bind probe.
C26_LowestFreePort ==
    [][(resp'.op = "deploy" /\ resp'.code = 200 /\ nextVer' # nextVer)
          => /\ resp'.port >= START_PORT
             /\ \A q \in START_PORT..(resp'.port - 1) :
                   \/ q \in resp'.failed
                   \/ \E i \in 1..Len(registry') : registry'[i].port = q]_vars

(***************************************************************************)
(* The environment of the children: an app is uploaded (static or node),   *)
(* its environment is configured, it is stopped and started.               *)
(***************************************************************************)
NextEnv ==
    \/ \E zip \in {ZipStatic, ZipNode} : DeployReq("b", "zip", zip)
    \/ \E d \in deploys : DeployProbe(d)
    \/ \E envVars \in Envs : SetEnvReq("b", envVars)
    \/ StartReq("b")
    \/ StopReq("b")
    \/ Exits

SpecEnv == InitFresh /\ [][NextEnv]_vars

\* C27: every child the supervisor starts, node or static, is created with
\* the platform environment overridden by the app's configured environment
\* overridden by PORT = the assigned port, so that a configured PORT never
\* replaces the assigned one.
C27_ChildEnvironment ==
    [][\A p \in procs' \ procs :
          HasApp(registry', p.name)
            => LET app == FindApp(registry', p.name)
               IN /\ DOMAIN p.env = DOMAIN PlatformEnv \cup DOMAIN app.env \cup {"PORT"}
                  /\ p.env["PORT"] = ToString(app.port)
                  /\ \A k \in DOMAIN app.env \ {"PORT"} : p.env[k] = app.env[k]
                  /\ \A k \in DOMAIN PlatformEnv \ (DOMAIN app.env \cup {"PORT"}) :
                        p.env[k] = PlatformEnv[k]]_vars

\* The same for the children of node apps only.
NodeChildEnvironment ==
    [][\A p \in procs' \ procs :
          (HasApp(registry', p.name) /\ FindApp(registry', p.name).type = "node")
            => LET app == FindApp(registry', p.name)
               IN /\ DOMAIN p.env = DOMAIN PlatformEnv \cup DOMAIN app.env \cup {"PORT"}
                  /\ p.env["PORT"] = ToString(app.port)
                  /\ \A k \in DOMAIN app.env \ {"PORT"} : p.env[k] = app.env[k]]_vars

(***************************************************************************)
(* Start, Stop and Restart of the registered app a and of the unregistered *)
(* name b, with the delayed starts and the clean exits of the children.    *)
(***************************************************************************)
NextState ==
    \/ \E n \in {"a", "b"} : StartReq(n)
    \/ \E n \in {"a", "b"} : StopReq(n)
    \/ \E n \in {"a", "b"} : RestartReq(n)
    \/ \E t \in startTimers : StartTimerFire(t)
    \/ \E p \in procs : ChildExit(p, 0)

SpecState == InitGit /\ [][NextState]_vars

\* What C28 requires a rejected request to leave alone.
Tracked == <<runningProcesses, procs, logStreams, openStreams, restartCounts, registry>>

NextGone ==
    \/ DeleteReq("a")
    \/ SweepStart
    \/ \E i \in 1..Len(registry) + 1, outcome \in {200, ProbeErr, ProbeTimeout} :
          SweepAnswer(i, outcome)
    \/ StartReq("a")
    \/ StopReq("a")
    \/ Exits

SpecGone == InitGit /\ [][NextGone]_vars

\* C29: Start of a registered, stopped app whose working directory does not
\* exist fails: no child is spawned, no log stream stays open, the saved
\* status is stopped and the caller is given an error, not a success answer.
C29_StartWithoutDirectoryFails ==
    [][\A n \in DOMAIN runningProcesses :
          (/\ nreq' = nreq + 1
           /\ resp' # NoResp /\ resp'.op = "start" /\ resp'.name = n
           /\ HasApp(registry, n)
           /\ runningProcesses[n] = NoPid
           /\ FindApp(registry, n).path \notin fsDirs)
            => /\ procs' = procs
               /\ logStreams'[n] \notin openStreams'
               /\ FindApp(registry', n).status = "stopped"
               /\ resp'.code >= 400]_vars

\* C30: a deploy registers the project as node when package.json is at the
\* project root, as static when there is no package.json and an index.html
\* is at the root; a project with neither is rejected, so that no deploy of
\* such a project succeeds or leaves a registry entry or a directory.
C30_ProjectClassified ==
    [][(resp'.op = "deploy" /\ resp'.code = 200 /\ nextVer' # nextVer
                            /\ HasApp(registry', resp'.name))
          => LET app == FindApp(registry', resp'.name)
                 manifest == (app.path \o <<"package.json">>) \in DOMAIN fsFiles'
                 index == (app.path \o <<"index.html">>) \in DOMAIN fsFiles'
             IN /\ (app.type = "node") <=> manifest
                /\ (app.type = "static") <=> (~manifest /\ index)]_vars

\* The part of C30 the handler implements: node exactly when package.json is
\* at the project root, static otherwise.
ManifestDecidesType ==
    [][(resp'.op = "deploy" /\ resp'.code = 200 /\ nextVer' # nextVer
                            /\ HasApp(registry', resp'.name))
          => LET app == FindApp(registry', resp'.name)
                 manifest == (app.path \o <<"package.json">>) \in DOMAIN fsFiles'
             IN /\ (app.type = "node") <=> manifest
                /\ (app.type = "static") <=> ~manifest]_vars

(***************************************************************************)
(* SpecLogs: the log files of app a over starts, stops, crashes with their *)
(* automatic restarts, and the lines the children write.                   *)
(***************************************************************************)
NextLogs ==
    \/ \E p \in procs : ChildOutput(p)
    \/ StartReq("a")
    \/ StopReq("a")
    \/ \E t \in startTimers : StartTimerFire(t)
    \/ Exits

SpecLogs == InitLogged /\ [][NextLogs]_vars

\* C24: when a start finds the primary log file at or above the maximum
\* size, the file numbered LOG_MAX_FILES is deleted, every file numbered
\* k < LOG_MAX_FILES becomes k + 1, the primary file becomes <name>.log.1
\* and the primary file is fresh; only the content of the file numbered
\* LOG_MAX_FILES is lost.
C24_RotationRenumbers ==
    [][\A n \in Names :
          (/\ Len(logFiles[n][0]) >= LOG_MAX_SIZE_MB
           /\ logStreams'[n] \notin {NoPid, logStreams[n]})
            => /\ logFiles'[n][0] = <<>>
               /\ logFiles'[n][1] = logFiles[n][0]
               /\ \A k \in 1..(LOG_MAX_FILES - 1) :
                     logFiles'[n][k + 1] = logFiles[n][k]]_vars

\* What rotateLog does instead: the primary file becomes <name>.log.2, the
\* files numbered 2 and more move up and <name>.log.1 is never written.
RotationStartsAtTwo ==
    [][\A n \in Names :
          (/\ Len(logFiles[n][0]) >= LOG_MAX_SIZE_MB
           /\ logStreams'[n] \notin {NoPid, logStreams[n]})
            => /\ logFiles'[n][0] = <<>>
               /\ logFiles'[n][1] = <<>>
               /\ LOG_MAX_FILES >= 2 => logFiles'[n][2] = logFiles[n][0]
               /\ \A k \in 2..(LOG_MAX_FILES - 1) :
                     logFiles'[n][k + 1] = logFiles[n][k]]_vars

\* The lines of the files of n read from the highest number down to index i.
RECURSIVE ReadDownTo(_, _)
ReadDownTo(fl, i) ==
    IF i > LOG_MAX_FILES THEN <<>> ELSE ReadDownTo(fl, i + 1) \o fl[i]

\* The lines are in the order in which they were written.
InWriteOrder(lines) ==
    \A i, j \in 1..Len(lines) : i < j => lines[i] < lines[j]

\* C25: every line of <name>.log.k was written after every line of
\* <name>.log.(k+1), and the existing files read from the highest number
\* down to the primary file give the lines in the order in which they were
\* written, also after a rotation at exactly LOG_MAX_SIZE_MB.
C25_LogOrderKept ==
    \A n \in Names :
        /\ \A k \in 0..(LOG_MAX_FILES - 1) :
              \A i \in 1..Len(logFiles[n][k]), j \in 1..Len(logFiles[n][k + 1]) :
                  logFiles[n][k + 1][j] < logFiles[n][k][i]
        /\ InWriteOrder(ReadDownTo(logFiles[n], 0))

\* Two rotations have happened, the later one of a primary file of exactly
\* LOG_MAX_SIZE_MB, and the new primary file has lines again.
C25_RotatedAtThreshold ==
    /\ Len(logFiles["a"][2]) = LOG_MAX_SIZE_MB
    /\ logFiles["a"][3] # <<>>
    /\ logFiles["a"][0] # <<>>

\* C34: the close event of a child that a newer child of the same app has
\* replaced touches only the old child: the supervisor-map entry of the
\* newer child stays, its log stream stays open, and status stopped is
\* neither saved nor published while the newer child runs.
C34_OldExitSparesNewChild ==
    [][\A p \in procs \ procs' :
          LET n == p.name
              newer == runningProcesses[n]
          IN (/\ newer \notin {NoPid, p.pid}
              /\ \E q \in procs' : q.pid = newer
              /\ HasApp(registry, n))
               => /\ runningProcesses'[n] = newer
                  /\ newer \in openStreams => newer \in openStreams'
                  /\ FindApp(registry, n).status = "running"
                        => FindApp(registry', n).status = "running"
                  /\ emitted'[n].status = emitted[n].status]_vars

\* The tracked child of n is alive and was not sent a signal.
RunningChild(n) ==
    \E q \in procs : q.name = n /\ q.pid = runningProcesses[n] /\ ~q.term

\* C35: a delayed start (auto-restart backoff, Restart's delay, rollback's
\* delay) whose delay has elapsed spawns no second child for an app that has
\* a running child at that moment.
C35_DelayedStartSpawnsNoSecond ==
    [][\A t \in startTimers \ startTimers' :
          RunningChild(t.app.name)
            => ~\E q \in procs' \ procs : q.name = t.app.name]_vars

\* C36: a Stop answered (with success or with not running) while an
\* auto-restart of the app is pending cancels it: the step after the answer
\* is not that pending auto-restart starting the app again.
C36_StopCancelsAutoRestart ==
    [][(resp.op = "stop" /\ resp.code \in {200, 400})
          => \A t \in startTimers :
                (/\ t.kind = "auto" /\ t.app.name = resp.name
                 /\ ~\E u \in startTimers' : u.kind = "auto" /\ u.id = t.id)
                   => /\ ~\E q \in procs' \ procs : q.name = resp.name
                      /\ runningProcesses'[resp.name] = NoPid]_vars

\* C33: the stability timer clears an app's restart counter only when one
\* child of the app has run continuously for STABLE_RUN_MS; the timer of a
\* child that has exited does not clear it because a later child is running.
C33_ClearedOnlyAfterStableRun ==
    [][\A t \in stabTimers :
          (/\ stabTimers' = stabTimers \ {t}
           /\ procs' = procs /\ nreq' = nreq
           /\ restartCounts[t.name] # NoCount
           /\ restartCounts'[t.name] = NoCount)
            => \E p \in procs : p.name = t.name /\ p.up >= StableTicks]_vars

\* C37: once a delete of an app has succeeded, the registry has no entry of
\* that name until a deploy of the name is accepted: a name enters the
\* registry only in the step that answers its deploy with success.
C37_DeletedStaysDeleted ==
    [][\A n \in Names :
          (~HasApp(registry, n) /\ HasApp(registry', n))
             => resp' # NoResp /\ resp'.op = "deploy" /\ resp'.name = n
                               /\ resp'.code = 200]_vars

\* C38: a health sweep saves the registry only when the probe of every app
\* of the sweep has reported, so a step of the sweep that changes the saved
\* document is the report of its last outstanding probe and the document
\* holds the health the sweep recorded for every app.
C38_SweepSavesAfterAllProbes ==
    [][(sweep.active /\ sweep' # sweep /\ registry' # registry)
          => /\ Cardinality(sweep.waiting) = 1
             /\ sweep' = NoSweep]_vars

\* The line numbered logClock is appended to the primary log file of n.
LineAppended(n) ==
    /\ logClock' = logClock + 1
    /\ logFiles'[n][0] = Append(logFiles[n][0], logClock)

\* C39: whenever a child exits (crash, normal exit or after a Stop), the
\* line "[SYSTEM] Process exited with code <code>" is appended to the log
\* file of its app before the child's log writer is closed.
C39_ExitLineLogged ==
    [][\A p \in procs :
          (logged /\ ~\E q \in procs' : q.pid = p.pid)
             => LineAppended(p.name) /\ p.pid \notin openStreams']_vars

\* The exit line is written when the child's writer is still open at the
\* exit, that is when the child was not stopped or replaced before.
ExitLineLoggedWhileOpen ==
    [][\A p \in procs :
          (logged /\ p.pid \in openStreams /\ ~\E q \in procs' : q.pid = p.pid)
             => LineAppended(p.name) /\ p.pid \notin openStreams']_vars

\* C32: after an accepted deploy of a name and a successful delete of it, a
\* second deploy of the name is accepted and its record's version history
\* has no version of the first deployment: a successful delete leaves
\* neither the entry nor the directory that would make the deploy be
\* refused, a deploy is refused as existing only when the directory exists,
\* and the record an accepted deploy adds has one version, whose id no
\* earlier deployment was given.
C32_RedeployAfterDeleteIsFresh ==
    [][/\ \A n \in Names :
             (nreq' = nreq + 1 /\ resp' = Resp("delete", n, 200))
                => ~HasApp(registry', n) /\ AppPath(n) \notin fsDirs'
       /\ (nreq' = nreq + 1 /\ resp'.op = "deploy" /\ resp'.code = 400)
             => AppPath(resp'.name) \in fsDirs
       /\ (resp'.op = "deploy" /\ resp'.code = 200 /\ nextVer' # nextVer)
             => LET new == registry'[Len(registry')]
                IN /\ new.name = resp'.name
                   /\ Len(new.versions) = 1
                   /\ new.currentVersion = new.versions[1].versionId
                   /\ new.versions[1].versionId >= nextVer
                   /\ \A i \in 1..Len(registry) :
                         \A j \in 1..Len(registry[i].versions) :
                            registry[i].versions[j].versionId < nextVer]_vars

\* The name a was deployed, deleted (its first child was signalled and is
\* still exiting) and deployed again: the second deploy has been accepted.
C32_DeployedAgain ==
    /\ resp.op = "deploy" /\ resp.name = "a" /\ resp.code = 200
    /\ HasApp(registry, "a")
    /\ \E p, q \in procs :
          /\ p.name = "a" /\ p.term
          /\ q.name = "a" /\ ~q.term /\ runningProcesses["a"] = q.pid

(***************************************************************************)
(* SpecPort: findAvailablePort applied to start ports and sets of occupied *)
(* ports around PORT_LIMIT.                                                *)
(***************************************************************************)
PortsNearLimit == (PORT_LIMIT - PortSpan)..(PORT_LIMIT + PortSpan)

\* await findAvailablePort(startAt) with the ports of occupied refusing the
\* bind: the call, its arguments and what it returned.
PortSearch(startAt, occupied) ==
    /\ resp' = [op |-> "findAvailablePort", name |-> "", code |-> startAt,
                error |-> "", port |-> findAvailablePort(startAt, occupied),
                failed |-> occupied]
    /\ UNCHANGED <<supVars, fsVars, asyncVars, nextVer, nreq, timed, now, stableRun,
                   faulty, boots, logged, platform>>

NextPort ==
    \E startAt \in PortsNearLimit, occupied \in SUBSET PortsNearLimit :
        PortSearch(startAt, occupied)

SpecPort == InitFresh /\ [][NextPort]_vars

\* C40: findAvailablePort(startAt) ends for every startAt and every set of
\* occupied ports, either with the lowest port from startAt upwards that is
\* not occupied or with 'No free ports'; it fails when the search reaches
\* PORT_LIMIT and never returns PORT_LIMIT or a higher port.
C40_PortBelowLimit ==
    resp.op = "findAvailablePort"
        => \/ resp.port = -1
           \/ /\ resp.port >= resp.code
              /\ resp.port < PORT_LIMIT
              /\ resp.port \notin resp.failed
              /\ \A q \in resp.code..(resp.port - 1) : q \in resp.failed

\* What the loop ensures: the port returned is the lowest port from startAt
\* upwards that binds, and it is above PORT_LIMIT only when startAt is.
PortAtMostLimit ==
    resp.op = "findAvailablePort"
        => \/ resp.port = -1 /\ \A q \in resp.code..PORT_LIMIT : q \in resp.failed
           \/ /\ resp.port >= resp.code
              /\ resp.port <= PORT_LIMIT \/ resp.port = resp.code
              /\ resp.port \notin resp.failed
              /\ \A q \in resp.code..(resp.port - 1) : q \in resp.failed

(***************************************************************************)
(* Shutdown. gracefulShutdown runs on SIGTERM or SIGINT; the process exits *)
(* when the HTTP server has closed, or after 10 s. Until then the platform *)
(* goes on serving requests, timers and the close events of its children.  *)
(***************************************************************************)
\* appNames.forEach(name => stopAppProcess(name, false))
RECURSIVE StopAll(_, _)
StopAll(S, names) ==
    IF names = {} THEN S
    ELSE LET n == CHOOSE x \in names : TRUE
         IN StopAll(stopAppProcess(S, n, FALSE), names \ {n})

\* Object.keys(logStreams).forEach(name => closeLogStream(name))
RECURSIVE CloseAll(_, _)
CloseAll(S, names) ==
    IF names = {} THEN S
    ELSE LET n == CHOOSE x \in names : TRUE
         IN CloseAll(closeLogStream(S, n), names \ {n})

gracefulShutdown ==
    /\ platform # "exited"
    /\ Commit(CloseAll(StopAll(Sup, Names), Names))
    /\ platform' = "closing"
    /\ resp' = NoResp
    /\ UNCHANGED <<fsVars, asyncVars, nextVer, nreq, timed, now, stableRun, faulty,
                   boots, logged>>

\* process.exit in the callback of server.close, or in the 10 s timer.
ProcessExit ==
    /\ platform = "closing"
    /\ platform' = "exited"
    /\ resp' = NoResp
    /\ UNCHANGED <<supVars, fsVars, asyncVars, nextVer, nreq, timed, now, stableRun,
                   faulty, boots, logged>>

NextShutdown ==
    \/ gracefulShutdown
    \/ ProcessExit
    \/ platform # "exited" /\ StartReq("a")
    \/ platform # "exited" /\ StopReq("a")
    \/ platform # "exited" /\ \E t \in startTimers : StartTimerFire(t)
    \/ platform # "exited" /\ Exits

SpecShutdown == InitGit /\ [][NextShutdown]_vars

\* C31: when a shutdown has completed no child is tracked, no log stream is
\* open and, the final registry write having been made, no app is persisted
\* with status running.
C31_ShutdownLeavesNothingRunning ==
    platform = "exited"
        => /\ \A n \in Names : runningProcesses[n] = NoPid
           /\ openStreams = {}
           /\ \A i \in 1..Len(registry) : registry[i].status # "running"

\* What gracefulShutdown itself leaves: no child is tracked and no stream is
\* open when it returns; the registry is as it was.
ShutdownStopsAndCloses ==
    [][platform = "up" /\ platform' = "closing"
          => /\ \A n \in Names : runningProcesses'[n] = NoPid
             /\ openStreams' = {}
             /\ registry' = registry]_vars

====
